---- MODULE Spec2Model ----
(***************************************************************************)
(* Model of the polymarket-kafka producer: the conviction engine           *)
(* (conviction.py), the polling orchestrator (runner.py), event            *)
(* construction (event_builder.py) and the publish call (kafka_client.py), *)
(* and of the strategy-injestor consumer: its poll (kafka_consumer.py),    *)
(* its loop (runner.py) and the archive writes (couchbase_client.py).      *)
(*                                                                         *)
(* Prices and absolute thresholds are exact decimals counted in            *)
(* hundredths (45 is 0.45); relative thresholds are counted in hundredths  *)
(* too (20 is 0.20).  A relative change is kept as the exact fraction      *)
(* <<numerator, denominator>>, +infinity being <<1, 0>>.  An Optional      *)
(* value is <<>> for None and <<v>> for v.  A reading of datetime.now() is *)
(* the pair <<program point, poll cycle>>: the clock is read to the poll   *)
(* cycle and tagged with the place that read it.                           *)
(*                                                                         *)
(* Spec is the orchestrator with the engine inside it, over a small input  *)
(* domain; SpecEngine applies the engine alone, call after call, over a    *)
(* wider domain of prices and thresholds.  SpecLive is the orchestrator    *)
(* under weak fairness of the steps of run(), over fewer inputs.           *)
(* SpecPublish is the producer and the log: events handed to produce() and *)
(* their delivery to the partitions of the topic.  SpecInjestor is the     *)
(* consumer: records arrive on the subscribed topic, the loop polls them   *)
(* and projects them into the archive, and the process may restart at the  *)
(* committed offsets.  SpecConsumer is the loop of the consumer with its    *)
(* signal handler and its shutdown, under weak fairness of its steps, and  *)
(* SpecDeadArchive is the same loop against an archive whose every write   *)
(* fails.  SpecAnyStore is the orchestrator reading a store that may hand  *)
(* out inactive subscriptions.  SpecStore is subscribe and unsubscribe     *)
(* (subscription_manager.py) called from several threads.  SpecClient is   *)
(* the HTTP client (data_source.py): _request_with_retries with its rate   *)
(* limit, called from two worker threads.  SpecFetch is the parse loop of  *)
(* a bulk fetch with the parser of one market record, and SpecPaging the   *)
(* pagination before it, under weak fairness of a page request.            *)
(* SpecGather is the gather of a poll cycle: the tasks of the              *)
(* subscriptions run one statement after another, in every order.          *)
(* SpecDocs is the orchestrator over a collection of stored documents,     *)
(* valid or not, that lasts from one poll cycle to the next.               *)
(***************************************************************************)
EXTENDS Integers, Sequences, FiniteSets, TLC

\* ---------------------------------------------------------------- bounds
MaxSubs == 2          \* documents returned by one subscription read
MaxTicks == 2         \* poll cycles started in one run
MaxPages == 2         \* pages the market API serves before a short page
MaxCallers == 2       \* threads calling subscribe or unsubscribe at the same time
MaxMono == 7          \* half seconds of monotonic time that pass in one run
MaxItems == 2         \* items in the pages of one bulk fetch
MaxLog == 2           \* records handed to the producer, and records put on the subscribed topic

\* ------------------------------------------------------ input domains
Markets == {"m1", "m2"}
Prices == {45, 48, 60}
RefCounts == {-1, 0, 1}
None == <<>>
Some(v) == <<v>>
\* conviction_threshold and conviction_threshold_pct of the documents of a
\* market: m1 leaves both unset, m2 sets 0.03 and 0.0.
ThresholdPairs == [m \in Markets |-> IF m = "m1" THEN <<None, None>>
                                     ELSE <<Some(3), Some(0)>>]

\* PolymarketSubscription (models.py); slug, created_at, updated_at are not
\* read by the engine or by the orchestrator.
Subscriptions ==
    {[market_id |-> m, ref_count |-> r,
      conviction_threshold |-> ThresholdPairs[m][1],
      conviction_threshold_pct |-> ThresholdPairs[m][2]] :
        m \in Markets, r \in RefCounts}

EnginePrices == {0, 5, 11, 42, 45, 48, 54, 60, 70, 100}
EngineSubscriptions ==
    [market_id : {"m1"}, ref_count : {1},
     conviction_threshold : {None, Some(0), Some(5)},
     conviction_threshold_pct : {None, Some(0), Some(50)}]

\* The sequences over S of the lengths from..to.
SeqsOf(S, from, to) == UNION {[1..n -> S] : n \in from..to}

RECURSIVE SeqsUpTo(_, _)
SeqsUpTo(S, n) ==
    IF n = 0 THEN {<<>>}
    ELSE LET shorter == SeqsUpTo(S, n - 1)
         IN  shorter \cup {Append(s, x) : s \in {t \in shorter : Len(t) = n - 1}, x \in S}

\* A page of the markets API after record parsing: the YES price per market
\* id (None for a market the page does not hold).  A short page, the last of
\* a fetch, is arbitrary; of a full page (500 records) the model fixes which
\* subscribed markets it holds.
PageItems == [Markets -> {None} \cup {Some(p) : p \in Prices}]
EmptyItems == [m \in Markets |-> None]
FullPageItems == {EmptyItems, [m \in Markets |-> IF m = "m1" THEN Some(45) ELSE None]}

VARIABLES
    pc,               \* position of run(): loop (entry), load, fetch, gather, sleep, flush, close_store, close_source, done
    stop_requested,   \* PolymarketKafkaRunner._stop_requested
    states,           \* PolymarketKafkaRunner._states: market id -> Optional ConvictionState
    active_subs,      \* run(): active_subs of the cycle in flight
    page_no,          \* fetch_all_markets(): pages received so far
    all_items,        \* fetch_all_markets(): the items of the pages received so far
    tasks,            \* run(): the coroutines handed to gather that have not run yet
    tick,             \* poll cycles started
    observed,         \* history: yes_price of the snapshot last evaluated, per market
    eval_count,       \* history: evaluations per market (counted up to 2)
    last_eval,        \* history: Optional record of the last _process_subscription call
    cycle,            \* history: what happened in the cycle in flight (published: key and event_id of the records produced)
    states_at_start,  \* history: states when the cycle in flight started
    outq,             \* Producer: records handed to produce() whose delivery report has not been served
    shutdown,         \* history: why run() left its loop and what its finally clause has done
    kafka_config,     \* KAFKA_TOPIC and KAFKA_TOPIC_PREFIX of the deployment
    produced,         \* history: the records handed to Producer.produce, in call order
    inflight,         \* Producer: the records queued and not yet delivered, in call order
    log,              \* the broker: topic -> partition -> sequence of records
    position,         \* Consumer: next offset to read, per partition of the subscribed topic
    committed,        \* Consumer: offset last auto-committed, per partition
    archive,          \* the Couchbase collection: document key -> document
    last_poll,        \* history: Optional record of the last iteration of the consumer loop
    collection,       \* the MongoDB collection: the documents of market m1, in insertion order
    collection_at_start, \* history: the collection before any call
    callers,          \* the threads calling subscribe/unsubscribe: operation, position, `now`
    clock,            \* datetime.now() readings handed out so far
    workers,          \* the worker threads inside _request_with_retries: position and locals
    mono,             \* time.monotonic(), in half seconds
    last_request_time, \* PolymarketClient._last_request_time
    rate_limit_delay, \* PolymarketConfig.rate_limit_delay_ms, in half seconds
    parsing           \* fetch_all_markets(): all_items, the item being parsed and result

\* The variables of the log, the consumer and the archive.
pipeline_vars == <<kafka_config, produced, inflight, log, position, committed,
                   archive, last_poll>>

\* The variables of the subscription store.
store_vars == <<collection, collection_at_start, callers, clock>>

\* The variables of the HTTP client and of the parse loop of a bulk fetch.
client_vars == <<workers, mono, last_request_time, rate_limit_delay, parsing>>

\* The variables outside the orchestrator and the pipeline.
aux_vars == <<store_vars, client_vars>>

vars == <<pc, stop_requested, states, active_subs, page_no, all_items, tasks,
          tick, observed, eval_count, last_eval, cycle, states_at_start,
          outq, shutdown, pipeline_vars, aux_vars>>

\* datetime.now(timezone.utc) read at a program point of the cycle in flight.
Now(point) == <<point, tick>>

\* ---------------------------------------------------------- conviction.py
ConvictionState ==
    [last_yes_price |-> None, last_event_yes_price |-> None, last_event_at |-> None]

default_abs == 10
default_pct == 20

\* Python's `x or d` for an Optional[float]: None and 0.0 are both falsy.
OrElse(opt, d) == IF opt # None /\ opt[1] # 0 THEN opt[1] ELSE d

_resolve_thresholds(subscription) ==
    [abs_threshold |-> OrElse(subscription.conviction_threshold, default_abs),
     pct_threshold |-> OrElse(subscription.conviction_threshold_pct, default_pct)]

Abs(x) == IF x < 0 THEN -x ELSE x

\* change_pct as an exact fraction; float("inf") is <<1, 0>>, 0.0 is <<0, 1>>.
ChangePct(change_abs, previous_price) ==
    IF previous_price = 0
    THEN (IF change_abs > 0 THEN <<1, 0>> ELSE <<0, 1>>)
    ELSE <<change_abs, previous_price>>

\* change_pct < pct_threshold, pct_threshold in hundredths.
PctLess(change_pct, pct_threshold) ==
    IF change_pct[2] = 0 THEN FALSE
    ELSE IF change_pct[2] > 0
         THEN change_pct[1] * 100 < pct_threshold * change_pct[2]
         ELSE change_pct[1] * 100 > pct_threshold * change_pct[2]

\* Mutant: the absolute bound taken as exclusive (`<=` for `<`).
Insignificant_mut(change_abs, change_pct, th) ==
    change_abs =< th.abs_threshold /\ PctLess(change_pct, th.pct_threshold)

\* `if change_abs < abs_threshold and change_pct < pct_threshold:`
Insignificant(change_abs, change_pct, th) ==
    change_abs < th.abs_threshold /\ PctLess(change_pct, th.pct_threshold)

\* Mutant: the comparison of the direction reversed.
Direction_mut(current_price, previous_price) ==
    IF current_price < previous_price THEN "yes" ELSE "no"

Direction(current_price, previous_price) ==
    IF current_price > previous_price THEN "yes" ELSE "no"

\* Mutant: the first observation returns without recording the price.
FirstObservation_mut(state, current_price) == state

\* Mutant: an insignificant move returns without recording the price.
InsignificantMove_mut(state, current_price) == state

\* The state writes of the first-observation and insignificant-move branches.
FirstObservation(state, current_price) ==
    [state EXCEPT !.last_yes_price = Some(current_price)]

InsignificantMove(state, current_price) ==
    [state EXCEPT !.last_yes_price = Some(current_price)]

\* Mutant: once an event has been emitted, the move is measured from the
\* price of that event.
detect_conviction_change_mut(subscription, snapshot, state, now) ==
    LET current_price == snapshot.yes_price
        previous_price == IF state.last_event_yes_price # None
                          THEN state.last_event_yes_price
                          ELSE state.last_yes_price
    IN  IF previous_price = None
        THEN [change |-> None, state |-> FirstObservation(state, current_price),
              thresholds |-> None]
        ELSE LET th == _resolve_thresholds(subscription)
                 change_abs == Abs(current_price - previous_price[1])
                 change_pct == ChangePct(change_abs, previous_price[1])
             IN  IF Insignificant(change_abs, change_pct, th)
                 THEN [change |-> None,
                       state |-> InsignificantMove(state, current_price),
                       thresholds |-> Some(th)]
                 ELSE [change |-> Some([direction |-> Direction(current_price, previous_price[1]),
                                        magnitude |-> change_abs,
                                        magnitude_pct |-> change_pct,
                                        previous_yes_price |-> previous_price,
                                        detected_at |-> now]),
                       state |-> [last_yes_price |-> Some(current_price),
                                  last_event_yes_price |-> Some(current_price),
                                  last_event_at |-> Some(now)],
                       thresholds |-> Some(th)]

\* detect_conviction_change: the returned change, the state as mutated, and
\* the thresholds the call resolved (None when it returned before resolving).
\* now is the reading of datetime.now() taken when a change fires.
detect_conviction_change(subscription, snapshot, state, now) ==
    LET current_price == snapshot.yes_price
        previous_price == state.last_yes_price
    IN  IF previous_price = None
        THEN [change |-> None, state |-> FirstObservation(state, current_price),
              thresholds |-> None]
        ELSE LET th == _resolve_thresholds(subscription)
                 change_abs == Abs(current_price - previous_price[1])
                 change_pct == ChangePct(change_abs, previous_price[1])
             IN  IF Insignificant(change_abs, change_pct, th)
                 THEN [change |-> None,
                       state |-> InsignificantMove(state, current_price),
                       thresholds |-> Some(th)]
                 ELSE [change |-> Some([direction |-> Direction(current_price, previous_price[1]),
                                        magnitude |-> change_abs,
                                        magnitude_pct |-> change_pct,
                                        previous_yes_price |-> previous_price,
                                        detected_at |-> now]),
                       state |-> [last_yes_price |-> Some(current_price),
                                  last_event_yes_price |-> Some(current_price),
                                  last_event_at |-> Some(now)],
                       thresholds |-> Some(th)]

\* ------------------------------------------------------- event_builder.py
\* PolymarketEvent field constraints (models.py): yes_price and
\* previous_yes_price in [0.0, 1.0], conviction_magnitude >= 0.0.
ValidEvent(e) ==
    /\ e.yes_price >= 0 /\ e.yes_price =< 100
    /\ e.conviction_magnitude >= 0
    /\ (e.previous_yes_price # None =>
            e.previous_yes_price[1] >= 0 /\ e.previous_yes_price[1] =< 100)

\* Mutant: the event stamped with the detection time and the snapshot price
\* given as the previous price.
build_polymarket_event_mut(snapshot, conviction, event_id) ==
    [event_id |-> event_id,
     timestamp |-> conviction.detected_at,
     market_id |-> snapshot.market_id,
     yes_price |-> snapshot.yes_price,
     source |-> "polymarket-kafka",
     published_at |-> None,
     conviction_direction |-> conviction.direction,
     conviction_magnitude |-> conviction.magnitude,
     conviction_magnitude_pct |-> conviction.magnitude_pct,
     previous_yes_price |-> Some(snapshot.yes_price)]

build_polymarket_event(snapshot, conviction, event_id) ==
    [event_id |-> event_id,
     timestamp |-> snapshot.fetched_at,
     market_id |-> snapshot.market_id,
     yes_price |-> snapshot.yes_price,
     source |-> "polymarket-kafka",
     published_at |-> None,
     conviction_direction |-> conviction.direction,
     conviction_magnitude |-> conviction.magnitude,
     conviction_magnitude_pct |-> conviction.magnitude_pct,
     previous_yes_price |-> conviction.previous_yes_price]

event_to_dict(event, published_at) ==
    IF published_at # None
    THEN [event EXCEPT !.published_at = published_at]
    ELSE event

\* ---------------------------------------------------------- kafka_client.py
\* json.dumps(payload, default=str): datetimes are written as strings.
json_dumps(payload) ==
    [payload EXCEPT !.timestamp = <<"str", payload.timestamp>>,
                    !.published_at = IF payload.published_at = None THEN None
                                     ELSE <<"str", payload.published_at[1]>>]

\* Mutant: the record sent under a fixed key and without the publish stamp.
publish_event_mut(event, now) ==
    LET payload == event_to_dict(event, None)
    IN  [key |-> "k", value |-> json_dumps(payload)]

\* publish_event: the record handed to Producer.produce.
publish_event(event, now) ==
    LET payload == event_to_dict(event, Some(now))
    IN  [key |-> payload.market_id, value |-> json_dumps(payload)]

\* ------------------------------------------------- subscription_manager.py
is_active(sub) == sub.ref_count > 0

\* find({"ref_count": {"$gt": 0}}) over the documents of the collection.
get_active_subscriptions(docs) == SelectSeq(docs, LAMBDA d : d.ref_count > 0)

\* ------------------------------------------------------------- data_source.py
\* all_items.extend(page) followed by result[snapshot.market_id] = snapshot:
\* a later record of the same market replaces an earlier one.
MergeItems(items, page) ==
    [m \in Markets |-> IF page[m] # None THEN page[m] ELSE items[m]]

\* The parse loop of fetch_all_markets: one MarketSnapshot per parsed item,
\* stamped with datetime.now().
ParseItems(items) ==
    [m \in Markets |->
        IF items[m] = None THEN None
        ELSE Some([market_id |-> m, yes_price |-> items[m][1],
                   fetched_at |-> Now("fetch")])]

NoSnapshots == [m \in Markets |-> None]

\* ------------------------------------------------------------------ runner.py
\* Mutant: a subscription without a snapshot is processed with a placeholder
\* snapshot instead of being skipped.
RECURSIVE JoinTasks_mut(_, _)
JoinTasks_mut(subs, snapshots) ==
    IF subs = <<>> THEN <<>>
    ELSE LET sub == Head(subs)
             snapshot == snapshots[sub.market_id]
         IN  <<[sub |-> sub,
                snapshot |-> IF snapshot = None
                             THEN [market_id |-> sub.market_id, yes_price |-> 0,
                                   fetched_at |-> Now("fetch")]
                             ELSE snapshot[1]]>>
                 \o JoinTasks_mut(Tail(subs), snapshots)

\* The join of run(): one task per active subscription with a snapshot.
RECURSIVE JoinTasks(_, _)
JoinTasks(subs, snapshots) ==
    IF subs = <<>> THEN <<>>
    ELSE LET sub == Head(subs)
             snapshot == snapshots[sub.market_id]
         IN  IF snapshot = None
             THEN JoinTasks(Tail(subs), snapshots)
             ELSE <<[sub |-> sub, snapshot |-> snapshot[1]]>>
                      \o JoinTasks(Tail(subs), snapshots)

EmptyCycle ==
    [store |-> "none", active |-> {}, inactive |-> {}, fetch_calls |-> 0, fetch |-> "none",
     pages_ok |-> 0, snapshots |-> {}, matched |-> 0, outcomes |-> <<>>,
     published |-> <<>>]

\* ------------------------------------------- config.py, the log, the archive
\* KafkaConfig of the deployment: both services read KAFKA_TOPIC, the
\* producer reads KAFKA_TOPIC_PREFIX as well.
Configs == [topic : {"polymarket-events"}, topic_prefix : {"", "dev-"}]

\* KafkaClient.topic: f"{topic_prefix}{topic}", the topic produce() names.
topic(config) == config.topic_prefix \o config.topic

\* KafkaConsumer.__init__: self._consumer.subscribe([config.topic]).
subscribed_topic(config) == config.topic

Topics == {topic(c) : c \in Configs} \cup {subscribed_topic(c) : c \in Configs}

\* NewTopic(topic_name, num_partitions=3): the partition of a record is a
\* function of its key (the default partitioner hashes the key).
Partitions == 0..2
PartitionOf(key) == CASE key = "m1" -> 0 [] key = "m2" -> 1 [] OTHER -> 2

EmptyLog == [t \in Topics |-> [p \in Partitions |-> <<>>]]

\* The archive collection with no document.
EmptyArchive == [k \in {} |-> None]

\* The log, the consumer and the archive before anything has happened.
PipelineIdle ==
    /\ kafka_config = [topic |-> "polymarket-events", topic_prefix |-> ""]
    /\ produced = <<>>
    /\ inflight = <<>>
    /\ log = EmptyLog
    /\ position = [p \in Partitions |-> 0]
    /\ committed = [p \in Partitions |-> 0]
    /\ archive = EmptyArchive
    /\ last_poll = None

\* The subscription store with no document and no call.
StoreIdle ==
    /\ collection = <<>>
    /\ collection_at_start = <<>>
    /\ callers = <<>>
    /\ clock = 0

\* The HTTP client with no call and no fetch.
ClientIdle ==
    /\ workers = <<>>
    /\ mono = 0
    /\ last_request_time = 0
    /\ rate_limit_delay = 0
    /\ parsing = <<>>

AuxIdle == StoreIdle /\ ClientIdle

\* run() has not reached its finally clause.
\* stop_early: request_stop was called while the cycle in flight was still
\* reading the store or fetching (noted under SpecLive only).
NoShutdown ==
    [why |-> "none", calls |-> <<>>, lost |-> 0, raised |-> FALSE,
     stop_early |-> FALSE]

\* The positions of run() inside its try block: before the first `while`
\* test and at its four awaits.
LoopPcs == {"loop", "load", "fetch", "gather", "sleep"}

Init ==
    /\ pc = "loop"
    /\ stop_requested = FALSE
    /\ states = [m \in Markets |-> None]
    /\ active_subs = <<>>
    /\ page_no = 0
    /\ all_items = EmptyItems
    /\ tasks = <<>>
    /\ tick = 0
    /\ observed = [m \in Markets |-> None]
    /\ eval_count = [m \in Markets |-> 0]
    /\ last_eval = None
    /\ cycle = EmptyCycle
    /\ states_at_start = [m \in Markets |-> None]
    /\ outq = 0
    /\ shutdown = NoShutdown
    /\ PipelineIdle
    /\ AuxIdle

\* request_stop(), called from the signal handler while run() is at one of
\* its awaits or has not started; `early` is what the history keeps of it.
RequestStopNoting(early) ==
    /\ ~stop_requested
    /\ pc \in LoopPcs
    /\ stop_requested' = TRUE
    /\ shutdown' = [shutdown EXCEPT !.stop_early = early]
    /\ UNCHANGED <<pc, states, active_subs, page_no, all_items, tasks, tick,
                   observed, eval_count, last_eval, cycle, states_at_start,
                   outq, pipeline_vars, aux_vars>>

RequestStop == RequestStopNoting(FALSE)

\* Mutant: every poll cycle starts from an empty _states.
StartCycle_mut ==
    /\ pc \in {"loop", "sleep"}
    /\ ~stop_requested
    /\ tick < MaxTicks
    /\ pc' = "load"
    /\ tick' = tick + 1
    /\ cycle' = EmptyCycle
    /\ last_eval' = None
    /\ states' = [m \in Markets |-> None]
    /\ states_at_start' = states'
    /\ UNCHANGED <<stop_requested, active_subs, page_no, all_items,
                   tasks, observed, eval_count, outq, shutdown, pipeline_vars, aux_vars>>

\* `while not self._stop_requested:` found true, at the start of run() or
\* when asyncio.sleep(poll_interval_seconds) returns: a poll cycle starts.
StartCycle ==
    /\ pc \in {"loop", "sleep"}
    /\ ~stop_requested
    /\ tick < MaxTicks
    /\ pc' = "load"
    /\ tick' = tick + 1
    /\ cycle' = EmptyCycle
    /\ last_eval' = None
    /\ states_at_start' = states
    /\ UNCHANGED <<stop_requested, states, active_subs, page_no, all_items,
                   tasks, observed, eval_count, outq, shutdown, pipeline_vars, aux_vars>>

\* Mutant: the stop flag is acted on inside the cycle, and the tasks still
\* waiting in the gather are dropped.
LoopExit_mut ==
    /\ pc \in {"loop", "sleep", "gather"}
    /\ stop_requested
    /\ pc' = "flush"
    /\ shutdown' = [shutdown EXCEPT !.why = "stop"]
    /\ UNCHANGED <<stop_requested, states, active_subs, page_no, all_items,
                   tasks, tick, observed, eval_count, last_eval, cycle,
                   states_at_start, outq, pipeline_vars, aux_vars>>

\* `while not self._stop_requested:` found false, at the start of run() or
\* when the sleep returns: run() goes to its finally clause.
LoopExit ==
    /\ pc \in {"loop", "sleep"}
    /\ stop_requested
    /\ pc' = "flush"
    /\ shutdown' = [shutdown EXCEPT !.why = "stop"]
    /\ cycle' = EmptyCycle
    /\ last_eval' = None
    /\ states_at_start' = states
    /\ UNCHANGED <<stop_requested, states, active_subs, page_no, all_items,
                   tasks, tick, observed, eval_count, outq, pipeline_vars, aux_vars>>

\* run() is cancelled (CancelledError raised at one of its awaits, as
\* asyncio.run does on KeyboardInterrupt): the frame unwinds to the finally
\* clause, and the tasks of the gather that have not run are cancelled.
Cancelled ==
    /\ pc \in {"load", "fetch", "gather", "sleep"}
    /\ pc' = "flush"
    /\ shutdown' = [shutdown EXCEPT !.why = "cancelled"]
    /\ active_subs' = <<>>
    /\ page_no' = 0
    /\ all_items' = EmptyItems
    /\ tasks' = <<>>
    /\ cycle' = EmptyCycle
    /\ last_eval' = None
    /\ states_at_start' = states
    /\ UNCHANGED <<stop_requested, states, tick, observed, eval_count, outq,
                   pipeline_vars, aux_vars>>

\* The markets of the subscriptions returned that are not active.
InactiveOf(subscriptions) ==
    {subscriptions[i].market_id :
        i \in {n \in 1..Len(subscriptions) : ~is_active(subscriptions[n])}}

\* Mutant: every subscription returned is taken as active.
AfterLoad_mut(subscriptions, how) ==
    LET active == subscriptions
    IN  /\ active_subs' = active
        /\ page_no' = 0
        /\ all_items' = EmptyItems
        /\ IF active = <<>>
           THEN /\ pc' = "sleep"
                /\ cycle' = [cycle EXCEPT !.store = how]
           ELSE /\ pc' = "fetch"
                /\ cycle' = [cycle EXCEPT !.store = how,
                                !.active = {active[i].market_id :
                                               i \in {n \in 1..Len(active) : is_active(active[n])}},
                                !.inactive = InactiveOf(subscriptions),
                                !.fetch_calls = @ + 1]
        /\ UNCHANGED <<stop_requested, states, tasks, tick, observed,
                       eval_count, last_eval, states_at_start, outq, shutdown, pipeline_vars, aux_vars>>

\* The rest of the cycle once `subscriptions` is bound: filter the active
\* ones, and either go to the sleep or call fetch_all_markets_async.
AfterLoad(subscriptions, how) ==
    LET active == SelectSeq(subscriptions, is_active)
    IN  /\ active_subs' = active
        /\ page_no' = 0
        /\ all_items' = EmptyItems
        /\ IF active = <<>>
           THEN /\ pc' = "sleep"
                /\ cycle' = [cycle EXCEPT !.store = how,
                                !.inactive = InactiveOf(subscriptions)]
           ELSE /\ pc' = "fetch"
                /\ cycle' = [cycle EXCEPT !.store = how,
                                !.active = {active[i].market_id : i \in 1..Len(active)},
                                !.inactive = InactiveOf(subscriptions),
                                !.fetch_calls = @ + 1]
        /\ UNCHANGED <<stop_requested, states, tasks, tick, observed,
                       eval_count, last_eval, states_at_start, outq, shutdown, pipeline_vars, aux_vars>>

\* get_active_subscriptions_async() returns the documents the store matched,
\* the collection holding one of the document lists of D.
LoadReturnsFrom(D) ==
    /\ pc = "load"
    /\ \E docs \in D :
          AfterLoad(get_active_subscriptions(docs), "ok")

LoadReturns == LoadReturnsFrom(SeqsUpTo(Subscriptions, MaxSubs))

\* Mutant: the error of the store read is not caught and run() unwinds.
LoadRaises_mut ==
    /\ pc = "load"
    /\ pc' = "flush"
    /\ cycle' = [cycle EXCEPT !.store = "raised"]
    /\ UNCHANGED <<stop_requested, states, active_subs, page_no, all_items,
                   tasks, tick, observed, eval_count, last_eval,
                   states_at_start, outq, shutdown, pipeline_vars, aux_vars>>

\* get_active_subscriptions_async() raises: subscriptions = [].
LoadRaises ==
    /\ pc = "load"
    /\ AfterLoad(<<>>, "raised")

\* The rest of the cycle once `snapshots` is bound: join, then gather or sleep.
AfterFetch(snapshots, how) ==
    LET joined == JoinTasks(active_subs, snapshots)
    IN  /\ tasks' = joined
        /\ pc' = IF joined = <<>> THEN "sleep" ELSE "gather"
        /\ cycle' = [cycle EXCEPT !.fetch = how,
                        !.pages_ok = page_no,
                        !.snapshots = {m \in Markets : snapshots[m] # None},
                        !.matched = Len(joined)]
        /\ page_no' = 0
        /\ all_items' = EmptyItems
        /\ active_subs' = <<>>
        /\ UNCHANGED <<stop_requested, states, tick, observed, eval_count,
                       last_eval, states_at_start, outq, shutdown, pipeline_vars, aux_vars>>

\* _fetch_page returns a full page: the loop of fetch_all_markets goes on.
FetchFullPage ==
    /\ pc = "fetch"
    /\ page_no + 1 < MaxPages
    /\ \E page \in FullPageItems :
          /\ all_items' = MergeItems(all_items, page)
          /\ page_no' = page_no + 1
    /\ UNCHANGED <<pc, stop_requested, states, active_subs, tasks, tick,
                   observed, eval_count, last_eval, cycle, states_at_start, outq, shutdown, pipeline_vars, aux_vars>>

\* _fetch_page returns a short page: the pagination ends, the items are
\* parsed and fetch_all_markets returns the snapshot map.
FetchLastPageFrom(P) ==
    /\ pc = "fetch"
    /\ \E page \in P :
          AfterFetch(ParseItems(MergeItems(all_items, page)), "ok")

FetchLastPage == FetchLastPageFrom(PageItems)

\* Mutant: a failing page ends the pagination and the items of the earlier
\* pages are parsed and returned.
FetchPageFails_mut ==
    /\ pc = "fetch"
    /\ AfterFetch(ParseItems(all_items), "raised")

\* _fetch_page raises (4xx, malformed body, retries exhausted), on the first
\* page or on a later one: fetch_all_markets raises and snapshots = {}.
FetchPageFails ==
    /\ pc = "fetch"
    /\ AfterFetch(NoSnapshots, "raised")

\* _process_subscription up to the `change is None` test: setdefault on
\* _states, then detect_conviction_change on the state object.
Detect(task) ==
    LET market_id == task.sub.market_id
        state == IF states[market_id] = None THEN ConvictionState
                 ELSE states[market_id][1]
    IN  detect_conviction_change(task.sub, task.snapshot, state, Now("detect"))

\* The history of one _process_subscription call: event is the PolymarketEvent
\* handed to publish_event, record what publish_event handed to the producer.
EvalRecord(task, res, event, record, outcome) ==
    [market_id |-> task.sub.market_id,
     nth |-> eval_count[task.sub.market_id],
     hist_prev |-> observed[task.sub.market_id],
     sub |-> task.sub,
     snapshot |-> task.snapshot,
     thresholds |-> res.thresholds,
     change |-> res.change,
     event |-> event,
     record |-> record,
     outcome |-> outcome]

\* The effect of detect_conviction_change on _states and on the history.
Evaluated(task, res, event, record, outcome) ==
    LET market_id == task.sub.market_id
    IN  /\ states' = [states EXCEPT ![market_id] = Some(res.state)]
        /\ observed' = [observed EXCEPT ![market_id] = Some(task.snapshot.yes_price)]
        /\ eval_count' = [eval_count EXCEPT ![market_id] = IF @ < 2 THEN @ + 1 ELSE @]
        /\ last_eval' = Some(EvalRecord(task, res, event, record, outcome))

\* Mutant: a task that fails cancels the tasks still waiting in the gather.
Processed_mut(task, res, event, record, outcome) ==
    /\ Evaluated(task, res, event, record, outcome)
    /\ tasks' = IF outcome = "failed" THEN <<>> ELSE Tail(tasks)
    /\ pc' = IF outcome = "failed" \/ Tail(tasks) = <<>> THEN "sleep" ELSE "gather"
    /\ cycle' = [cycle EXCEPT
                    !.outcomes = Append(@, [market_id |-> task.sub.market_id,
                                            outcome |-> outcome]),
                    !.published = IF record = None THEN @
                                  ELSE Append(@, [key |-> record[1].key,
                                                  event_id |-> record[1].value.event_id])]
    /\ outq' = IF record = None THEN outq ELSE outq + 1
    /\ UNCHANGED <<stop_requested, active_subs, page_no, all_items, tick,
                   states_at_start, shutdown, pipeline_vars, aux_vars>>

\* What a _process_subscription call leaves behind, whatever its outcome:
\* the task is over and gather runs the next one, or returns after the last.
Processed(task, res, event, record, outcome) ==
    /\ Evaluated(task, res, event, record, outcome)
    /\ tasks' = Tail(tasks)
    /\ pc' = IF Tail(tasks) = <<>> THEN "sleep" ELSE "gather"
    /\ cycle' = [cycle EXCEPT
                    !.outcomes = Append(@, [market_id |-> task.sub.market_id,
                                            outcome |-> outcome]),
                    !.published = IF record = None THEN @
                                  ELSE Append(@, [key |-> record[1].key,
                                                  event_id |-> record[1].value.event_id])]
    /\ outq' = IF record = None THEN outq ELSE outq + 1
    /\ UNCHANGED <<stop_requested, active_subs, page_no, all_items, tick,
                   states_at_start, shutdown, pipeline_vars, aux_vars>>

\* The task at the head of the gather runs and no change is returned.
ProcessNoChange ==
    /\ pc = "gather"
    /\ tasks # <<>>
    /\ LET task == Head(tasks)
           res == Detect(task)
       IN  /\ res.change = None
           /\ Processed(task, res, None, None,
                        IF res.thresholds = None THEN "baseline" ELSE "suppressed")

\* A change is returned, the event is built and handed to the producer.
ProcessPublish ==
    /\ pc = "gather"
    /\ tasks # <<>>
    /\ LET k == Len(cycle.outcomes)
           task == Head(tasks)
           res == Detect(task)
       IN  /\ res.change # None
           /\ LET event == build_polymarket_event(task.snapshot, res.change[1],
                                                  <<"uuid4", tick, k>>)
              IN  /\ ValidEvent(event)
                  /\ Processed(task, res, Some(event),
                               Some(publish_event(event, Now("publish"))),
                               "published")

\* A change is returned and build_polymarket_event raises (a field of the
\* event fails validation), or Producer.produce raises (queue full, producer
\* error): the except clause logs the error and the task ends.
ProcessPublishFails ==
    /\ pc = "gather"
    /\ tasks # <<>>
    /\ LET k == Len(cycle.outcomes)
           task == Head(tasks)
           res == Detect(task)
       IN  /\ res.change # None
           /\ LET event == build_polymarket_event(task.snapshot, res.change[1],
                                                  <<"uuid4", tick, k>>)
              IN  \/ Processed(task, res, None, None, "failed")
                  \/ /\ ValidEvent(event)
                     /\ Processed(task, res, Some(event), None, "failed")

\* finally: self._kafka_client.flush(), which is Producer.flush(None), in a
\* build of the client where a timeout of None means no timeout: flush
\* serves the delivery report of every queued record and returns when the
\* queue is empty.  A record the brokers do not acknowledge is failed by the
\* producer after delivery.timeout.ms (60 s) and is lost.
Flush ==
    /\ pc = "flush"
    /\ pc' = "close_store"
    /\ \E delivered \in 0..outq :
          shutdown' = [shutdown EXCEPT !.calls = Append(@, "flush"),
                                       !.lost = outq - delivered]
    /\ outq' = 0
    /\ UNCHANGED <<stop_requested, states, active_subs, page_no, all_items,
                   tasks, tick, observed, eval_count, last_eval, cycle,
                   states_at_start, pipeline_vars, aux_vars>>

\* Mutant: each call of the finally clause is protected, so the closes
\* follow a flush that raised.
FlushRaises_mut ==
    /\ pc = "flush"
    /\ pc' = "close_store"
    /\ shutdown' = [shutdown EXCEPT !.calls = Append(@, "flush"),
                                   !.lost = outq,
                                   !.raised = TRUE]
    /\ UNCHANGED <<stop_requested, states, active_subs, page_no, all_items,
                   tasks, tick, observed, eval_count, last_eval, cycle,
                   states_at_start, outq, pipeline_vars, aux_vars>>

\* finally: self._kafka_client.flush() in a build of the client whose
\* Producer.flush reads its timeout as a C double: flush(None) raises
\* TypeError before the queue is served, the rest of the finally clause is
\* skipped and run() ends with the error.
FlushRaises ==
    /\ pc = "flush"
    /\ pc' = "done"
    /\ shutdown' = [shutdown EXCEPT !.calls = Append(@, "flush"),
                                   !.lost = outq,
                                   !.raised = TRUE]
    /\ UNCHANGED <<stop_requested, states, active_subs, page_no, all_items,
                   tasks, tick, observed, eval_count, last_eval, cycle,
                   states_at_start, outq, pipeline_vars, aux_vars>>

\* finally: self._subscription_manager.close()
CloseStore ==
    /\ pc = "close_store"
    /\ pc' = "close_source"
    /\ shutdown' = [shutdown EXCEPT !.calls = Append(@, "close_store")]
    /\ UNCHANGED <<stop_requested, states, active_subs, page_no, all_items,
                   tasks, tick, observed, eval_count, last_eval, cycle,
                   states_at_start, outq, pipeline_vars, aux_vars>>

\* finally: self._data_source.close()
CloseSource ==
    /\ pc = "close_source"
    /\ pc' = "done"
    /\ shutdown' = [shutdown EXCEPT !.calls = Append(@, "close_source")]
    /\ UNCHANGED <<stop_requested, states, active_subs, page_no, all_items,
                   tasks, tick, observed, eval_count, last_eval, cycle,
                   states_at_start, outq, pipeline_vars, aux_vars>>

Next ==
    \/ RequestStop
    \/ StartCycle
    \/ LoopExit
    \/ Cancelled
    \/ LoadReturns
    \/ LoadRaises
    \/ FetchFullPage
    \/ FetchLastPage
    \/ FetchPageFails
    \/ ProcessNoChange
    \/ ProcessPublish
    \/ ProcessPublishFails
    \/ Flush
    \/ FlushRaises
    \/ CloseStore
    \/ CloseSource

Spec == Init /\ [][Next]_vars

\* ------------------------------------------- the orchestrator under fairness
\* The same run() over fewer inputs: the store holds no document with a
\* negative ref_count, and the last page of a fetch holds no price, 0.45 or
\* 0.60 for m1 and no price for m2.
LiveSubscriptions == {s \in Subscriptions : s.ref_count >= 0}
LivePageItems ==
    {items \in PageItems : items["m2"] = None /\ items["m1"] # Some(48)}

\* request_stop(), the history noting whether the cycle in flight was still
\* reading the store or fetching.
LiveRequestStop == RequestStopNoting(pc \in {"load", "fetch"})

LiveLoadReturns == LoadReturnsFrom(SeqsUpTo(LiveSubscriptions, MaxSubs))
LiveFetchLastPage == FetchLastPageFrom(LivePageItems)

\* The steps run() takes by itself once the event loop schedules it: the
\* awaited store read, fetch and sleep return, the tasks of the gather run,
\* the calls of the finally clause return or raise.
ProgramStep ==
    \/ StartCycle
    \/ LoopExit
    \/ LiveLoadReturns
    \/ LoadRaises
    \/ FetchFullPage
    \/ LiveFetchLastPage
    \/ FetchPageFails
    \/ ProcessNoChange
    \/ ProcessPublish
    \/ ProcessPublishFails
    \/ Flush
    \/ FlushRaises
    \/ CloseStore
    \/ CloseSource

LiveNext ==
    \/ LiveRequestStop
    \/ Cancelled
    \/ StartCycle
    \/ LoopExit
    \/ LiveLoadReturns
    \/ LoadRaises
    \/ FetchFullPage
    \/ LiveFetchLastPage
    \/ FetchPageFails
    \/ ProcessNoChange
    \/ ProcessPublish
    \/ ProcessPublishFails
    \/ Flush
    \/ FlushRaises
    \/ CloseStore
    \/ CloseSource

SpecLive == Init /\ [][LiveNext]_vars /\ WF_vars(ProgramStep)

\* --------------------------------- the orchestrator over an unfiltering store
\* The same run() with a subscription manager whose
\* get_active_subscriptions_async returns documents whatever their
\* ref_count (the filter of the query is not applied, or the count changed
\* after the match), and pages that hold no price, 0.45 or 0.60 for a market.
AnyLoadReturns ==
    /\ pc = "load"
    /\ \E docs \in SeqsUpTo(Subscriptions, MaxSubs) : AfterLoad(docs, "ok")

AnyPageItems == [Markets -> {None, Some(45), Some(60)}]
AnyFetchLastPage == FetchLastPageFrom(AnyPageItems)

AnyNext ==
    \/ StartCycle
    \/ AnyLoadReturns
    \/ AnyFetchLastPage
    \/ ProcessNoChange
    \/ ProcessPublish
    \/ ProcessPublishFails

SpecAnyStore == Init /\ [][AnyNext]_vars

\* ---------------------------------- the orchestrator over stored documents
\* The same run() with the documents of the subscriptions collection kept
\* in `collection` from one poll cycle to the next, and validated by
\* PolymarketSubscription(**data) when they are read.  A document is a
\* record of the fields it holds.
ValidDocument ==
    [market_id |-> "m1", ref_count |-> 1, conviction_threshold |-> None,
     conviction_threshold_pct |-> None]

\* A second valid document, one whose conviction_threshold is 1.5, one with
\* no market_id, and one with no market_id and a ref_count of 0.
OtherDocuments ==
    {[market_id |-> "m2", ref_count |-> 1, conviction_threshold |-> Some(3),
      conviction_threshold_pct |-> Some(0)],
     [market_id |-> "m1", ref_count |-> 1, conviction_threshold |-> Some(150),
      conviction_threshold_pct |-> None],
     [ref_count |-> 1, conviction_threshold |-> None,
      conviction_threshold_pct |-> None],
     [ref_count |-> 0, conviction_threshold |-> None,
      conviction_threshold_pct |-> None]}

DocCollections ==
    {<<ValidDocument>>}
       \cup {<<ValidDocument, d>> : d \in OtherDocuments}
       \cup {<<d, ValidDocument>> : d \in OtherDocuments}

\* PolymarketSubscription(**data) does not raise ValidationError: market_id
\* is required, conviction_threshold has ge=0.0 and le=1.0,
\* conviction_threshold_pct has ge=0.0.
Validates(doc) ==
    /\ "market_id" \in DOMAIN doc
    /\ doc.conviction_threshold = None \/ doc.conviction_threshold[1] \in 0..100
    /\ doc.conviction_threshold_pct = None \/ doc.conviction_threshold_pct[1] >= 0

\* Mutant: a document that fails validation is skipped.
ReadDocuments_mut(coll) ==
    [raised |-> FALSE,
     subs |-> SelectSeq(SelectSeq(coll, LAMBDA d : d.ref_count > 0), Validates)]

\* get_active_subscriptions over the documents of the collection: find()
\* matches ref_count > 0, and the list comprehension parses every match
\* inside one try, so one ValidationError is raised out of the call.
ReadDocuments(coll) ==
    LET matched == SelectSeq(coll, LAMBDA d : d.ref_count > 0)
    IN  IF \E i \in 1..Len(matched) : ~Validates(matched[i])
        THEN [raised |-> TRUE, subs |-> <<>>]
        ELSE [raised |-> FALSE, subs |-> matched]

DocsInit ==
    /\ pc = "loop"
    /\ stop_requested = FALSE
    /\ states = [m \in Markets |-> None]
    /\ active_subs = <<>>
    /\ page_no = 0
    /\ all_items = EmptyItems
    /\ tasks = <<>>
    /\ tick = 0
    /\ observed = [m \in Markets |-> None]
    /\ eval_count = [m \in Markets |-> 0]
    /\ last_eval = None
    /\ cycle = EmptyCycle
    /\ states_at_start = [m \in Markets |-> None]
    /\ outq = 0
    /\ shutdown = NoShutdown
    /\ PipelineIdle
    /\ ClientIdle
    /\ collection \in DocCollections
    /\ collection_at_start = <<>>
    /\ callers = <<>>
    /\ clock = 0

\* The awaited get_active_subscriptions_async() returns or raises.
DocsLoad ==
    /\ pc = "load"
    /\ LET read == ReadDocuments(collection)
       IN  IF read.raised THEN AfterLoad(<<>>, "raised")
           ELSE AfterLoad(read.subs, "ok")

\* A subscriber or an operator changes the documents of the collection.
DocsChange ==
    /\ pc \in LoopPcs
    /\ collection' \in DocCollections \ {collection}
    /\ UNCHANGED <<pc, stop_requested, states, active_subs, page_no, all_items,
                   tasks, tick, observed, eval_count, last_eval, cycle,
                   states_at_start, outq, shutdown, pipeline_vars,
                   collection_at_start, callers, clock, client_vars>>

\* Pages that hold 0.45 or 0.60 for m1 and no price or 0.60 for m2.
DocsPageItems ==
    {items \in PageItems : /\ items["m1"] \in {Some(45), Some(60)}
                           /\ items["m2"] \in {None, Some(60)}}
DocsFetchLastPage == FetchLastPageFrom(DocsPageItems)

DocsNext ==
    \/ StartCycle
    \/ DocsLoad
    \/ DocsChange
    \/ DocsFetchLastPage
    \/ ProcessNoChange
    \/ ProcessPublish
    \/ ProcessPublishFails

SpecDocs == DocsInit /\ [][DocsNext]_vars

\* ----------------------------------------- runner.py: the tasks of a gather
\* asyncio.gather runs every _process_subscription coroutine as a task; the
\* event loop runs one task at a time and changes task only where the
\* running one awaits.  A task is followed statement by statement: start
\* (setdefault on _states), read (previous_price = state.last_yes_price),
\* write (the branches of detect_conviction_change and their writes),
\* publish (the `change is None` test, build and publish_event), done.
GatherPrices == {45, 48, 60}
GatherSubscriptions ==
    {[market_id |-> m, ref_count |-> 1, conviction_threshold |-> th,
      conviction_threshold_pct |-> None] :
        m \in Markets, th \in {None, Some(3)}} \ 
    {[market_id |-> "m2", ref_count |-> 1, conviction_threshold |-> Some(3),
      conviction_threshold_pct |-> None]}
GatherSnapshots == {[m \in Markets |-> IF m = "m1" THEN p ELSE 60] : p \in GatherPrices}

\* The conviction states a run can have left behind: none, or a first
\* observation of 0.45.
GatherStates ==
    {None, Some([ConvictionState EXCEPT !.last_yes_price = Some(45)])}

\* cycle under SpecGather: outcomes and published of the cycle in flight, and
\* dropped, the (market, price) pairs whose event was lost since the start.
GatherCycle(dropped) == [outcomes |-> <<>>, published |-> <<>>, dropped |-> dropped]

GatherInit ==
    /\ pc = "loop"
    /\ stop_requested = FALSE
    /\ states \in {[m \in Markets |-> IF m = "m1" THEN st ELSE None] : st \in GatherStates}
    /\ active_subs = <<>>
    /\ page_no = 0
    /\ all_items = EmptyItems
    /\ tasks = <<>>
    /\ tick = 0
    /\ observed = [m \in Markets |-> None]
    /\ eval_count = [m \in Markets |-> 0]
    /\ last_eval = None
    /\ cycle = GatherCycle({})
    /\ states_at_start = states
    /\ outq = 0
    /\ shutdown = NoShutdown
    /\ PipelineIdle
    /\ AuxIdle

\* A coroutine object made by self._process_subscription(sub, snapshot).
NewTask(joined) ==
    [sub |-> joined.sub, snapshot |-> joined.snapshot, pc |-> "start",
     previous_price |-> None, change |-> None, thresholds |-> None,
     outcome |-> "none", tick |-> tick + 1]

\* A poll cycle up to its gather: the store returns active subscriptions,
\* the fetch returns a snapshot per market, and the join makes the tasks.
GatherStart ==
    /\ pc \in {"loop", "sleep"}
    /\ tick < MaxTicks
    /\ \E subs \in SeqsOf(GatherSubscriptions, 1, MaxSubs),
          prices \in GatherSnapshots :
          LET snapshots == ParseItems([m \in Markets |-> Some(prices[m])])
              joined == JoinTasks(subs, snapshots)
          IN  tasks' = [i \in 1..Len(joined) |-> NewTask(joined[i])]
    /\ pc' = "gather"
    /\ tick' = tick + 1
    /\ cycle' = GatherCycle(cycle.dropped)
    /\ states_at_start' = states
    /\ UNCHANGED <<stop_requested, states, active_subs, page_no, all_items,
                   observed, eval_count, last_eval, outq, shutdown,
                   pipeline_vars, aux_vars>>

\* Mutant: the engine yields to the event loop between its read and its
\* branches.
AwaitPoints_mut == {"write"}

\* The positions at which _process_subscription awaits: its body and the
\* engine it calls hold no await.
AwaitPoints == {}

\* Mutant: the engine works on a copy of the state object.
Written_mut(state, res) == Some(state)

\* The state object after detect_conviction_change returns.
Written(state, res) == Some(res.state)

\* Mutant: a failed publish puts the previous price back, so that the change
\* is detected again.
OnPublishError_mut(sts, t) ==
    [sts EXCEPT ![t.sub.market_id] =
        Some([@[1] EXCEPT !.last_yes_price = t.previous_price])]

\* except Exception: logger.error("Failed to publish event ...").
OnPublishError(sts, t) == sts

\* One statement of the task t on the states sts; fails tells whether
\* build_polymarket_event or publish_event raises.  The result holds the
\* task, the states and the record handed to the producer.
TaskStatement(t, sts, fails) ==
    LET m == t.sub.market_id
    IN  CASE t.pc = "start" ->
               [task |-> [t EXCEPT !.pc = "read"],
                states |-> IF sts[m] = None
                           THEN [sts EXCEPT ![m] = Some(ConvictionState)] ELSE sts,
                record |-> None]
          [] t.pc = "read" ->
               [task |-> [t EXCEPT !.pc = "write",
                                   !.previous_price = sts[m][1].last_yes_price],
                states |-> sts, record |-> None]
          [] t.pc = "write" ->
               LET res == detect_conviction_change(
                              t.sub, t.snapshot,
                              [sts[m][1] EXCEPT !.last_yes_price = t.previous_price],
                              Now("detect"))
               IN  [task |-> [t EXCEPT !.pc = "publish", !.change = res.change,
                                       !.thresholds = res.thresholds],
                    states |-> [sts EXCEPT ![m] = Written(sts[m][1], res)],
                    record |-> None]
          [] OTHER ->
               IF t.change = None
               THEN [task |-> [t EXCEPT !.pc = "done",
                                        !.outcome = IF t.thresholds = None
                                                    THEN "baseline" ELSE "suppressed"],
                     states |-> sts, record |-> None]
               ELSE IF fails
               THEN [task |-> [t EXCEPT !.pc = "done", !.outcome = "failed"],
                     states |-> OnPublishError(sts, t), record |-> None]
               ELSE LET event == build_polymarket_event(
                                     t.snapshot, t.change[1],
                                     <<"uuid4", tick, Len(cycle.outcomes)>>)
                    IN  [task |-> [t EXCEPT !.pc = "done", !.outcome = "published"],
                         states |-> sts,
                         record |-> Some(publish_event(event, Now("publish")))]

\* The task runs from its position to its next await or to its end.
RECURSIVE RunToAwait(_, _, _)
RunToAwait(t, sts, fails) ==
    LET next == TaskStatement(t, sts, fails)
    IN  IF next.task.pc = "done" \/ next.task.pc \in AwaitPoints
        THEN next
        ELSE RunToAwait(next.task, next.states, fails)

\* The event loop runs task i.
RunTask(i) ==
    /\ pc = "gather"
    /\ i \in 1..Len(tasks)
    /\ tasks[i].pc # "done"
    /\ \E fails \in BOOLEAN :
          LET ran == RunToAwait(tasks[i], states, fails)
              t == ran.task
              m == t.sub.market_id
          IN  /\ tasks' = [tasks EXCEPT ![i] = t]
              /\ states' = ran.states
              /\ outq' = IF ran.record = None THEN outq ELSE outq + 1
              /\ IF t.pc = "done"
                 THEN /\ cycle' = [cycle EXCEPT
                             !.outcomes = Append(@, [market_id |-> m,
                                                     outcome |-> t.outcome]),
                             !.published = IF ran.record = None THEN @
                                           ELSE Append(@, [key |-> ran.record[1].key,
                                                           event_id |-> ran.record[1].value.event_id]),
                             !.dropped = IF t.outcome = "failed"
                                         THEN @ \cup {<<m, t.snapshot.yes_price>>}
                                         ELSE @]
                      /\ last_eval' = Some(t)
                 ELSE UNCHANGED <<cycle, last_eval>>
    /\ UNCHANGED <<pc, stop_requested, active_subs, page_no, all_items, tick,
                   observed, eval_count, states_at_start, shutdown,
                   pipeline_vars, aux_vars>>

RunSomeTask == \E i \in 1..MaxSubs : RunTask(i)

\* Every task of the gather is done: the await returns and run() goes to
\* its sleep.
GatherReturns ==
    /\ pc = "gather"
    /\ \A i \in 1..Len(tasks) : tasks[i].pc = "done"
    /\ pc' = "sleep"
    /\ tasks' = <<>>
    /\ UNCHANGED <<stop_requested, states, active_subs, page_no, all_items,
                   tick, observed, eval_count, last_eval, cycle,
                   states_at_start, outq, shutdown, pipeline_vars, aux_vars>>

GatherNext ==
    \/ GatherStart
    \/ RunSomeTask
    \/ GatherReturns

SpecGather == GatherInit /\ [][GatherNext]_vars

\* ------------------------------------------------ the engine on its own
EngineInit ==
    /\ pc = "engine"
    /\ stop_requested = FALSE
    /\ states = [m \in Markets |-> None]
    /\ active_subs = <<>>
    /\ page_no = 0
    /\ all_items = EmptyItems
    /\ tasks = <<>>
    /\ tick = 0
    /\ observed = [m \in Markets |-> None]
    /\ eval_count = [m \in Markets |-> 0]
    /\ last_eval = None
    /\ cycle = EmptyCycle
    /\ states_at_start = [m \in Markets |-> None]
    /\ outq = 0
    /\ shutdown = NoShutdown
    /\ PipelineIdle
    /\ AuxIdle

\* One call detect_conviction_change(subscription, snapshot, state) on the
\* state object the previous calls left.
EngineCall ==
    /\ pc = "engine"
    /\ \E sub \in EngineSubscriptions, price \in EnginePrices :
          LET task == [sub |-> sub,
                       snapshot |-> [market_id |-> sub.market_id, yes_price |-> price,
                                     fetched_at |-> Now("fetch")]]
              res == Detect(task)
          IN  Evaluated(task, res, None, None,
                        IF res.change # None THEN "fired"
                        ELSE IF res.thresholds = None THEN "baseline" ELSE "suppressed")
    /\ UNCHANGED <<pc, stop_requested, active_subs, page_no, all_items, tasks,
                   tick, cycle, states_at_start, outq, shutdown, pipeline_vars, aux_vars>>

EngineNext == EngineCall

SpecEngine == EngineInit /\ [][EngineNext]_vars

\* ======================================= the log, the consumer, the archive
\* A record of the log is [key, kind, body]: kind tells what the value bytes
\* are (the UTF-8 JSON text of an object, of an array, the text `null`,
\* text that is not JSON, bytes that are not UTF-8, or no value at all) and
\* body is the object the text denotes, for an object.
NoBody == [k \in {} |-> None]

\* data = json.dumps(payload, default=str).encode("utf-8") as it lies in the
\* log: the bytes of the JSON text of the payload.
LogRecord(record) == [key |-> record.key, kind |-> "object", body |-> record.value]

\* Records that other producers put on the subscribed topic: objects that
\* carry a field named type, no market_id or no event_id, and values that
\* do not decode to an object.
ForeignBodies ==
    {[event_id |-> <<"id", "e1">>, market_id |-> "m1", type |-> "custom"],
     [event_id |-> <<"unknown">>, yes_price |-> 45],
     [market_id |-> "m2", yes_price |-> 60]}

ForeignRecords ==
    {[key |-> "k", kind |-> "object", body |-> b] : b \in ForeignBodies}
        \cup {[key |-> "k", kind |-> k, body |-> NoBody] :
                  k \in {"array", "null", "bad_json", "bad_utf8", "tombstone"}}

\* The subscriptions and snapshot prices of the pipeline runs.
PipelineSubscriptions == {s \in Subscriptions : s.ref_count = 1}
PipelinePrices == {45, 60}

\* The records of the topic the consumer subscribed to, per partition.
SubscribedLog == log[subscribed_topic(kafka_config)]

\* -------------------------------------------------------- kafka_consumer.py
\* Mutant: a value that does not decode is handed on as an empty object.
poll_mut(msg) ==
    IF msg.kind = "object"
    THEN [raised |-> FALSE, event |-> Some([kind |-> msg.kind, body |-> msg.body])]
    ELSE [raised |-> FALSE, event |-> Some([kind |-> "object", body |-> NoBody])]

\* KafkaConsumer.poll on a message of the log: the event it returns, or that
\* it raised.  A message without value and text that is `null` or not JSON
\* give None; bytes that are not UTF-8 raise UnicodeDecodeError, which the
\* except clause (json.JSONDecodeError) does not catch; any other JSON text
\* is returned decoded.
poll(msg) ==
    IF msg.kind = "tombstone" THEN [raised |-> FALSE, event |-> None]
    ELSE IF msg.kind = "bad_utf8" THEN [raised |-> TRUE, event |-> None]
    ELSE IF msg.kind \in {"bad_json", "null"} THEN [raised |-> FALSE, event |-> None]
    ELSE [raised |-> FALSE, event |-> Some([kind |-> msg.kind, body |-> msg.body])]

\* ------------------------------------------------------ couchbase_client.py
\* event.get(key, default)
DictGet(event, key, default) == IF key \in DOMAIN event THEN event[key] ELSE default

\* {"type": type, **event}: the fields of the event come last and win.
WithType(type, event) ==
    [k \in {"type"} \cup DOMAIN event |-> IF k \in DOMAIN event THEN event[k] ELSE type]

\* f"market::{market_id}" and f"event::{event_id}"
market_key(event) == <<"market::", DictGet(event, "market_id", "unknown")>>
event_key(event) == <<"event::", DictGet(event, "event_id", <<"unknown">>)>>

\* collection.upsert(key, doc)
Upsert(coll, key, doc) ==
    [k \in DOMAIN coll \cup {key} |-> IF k = key THEN doc ELSE coll[k]]

\* Mutant: the history document is written under the key of the market.
UpsertWrites_mut(coll, event, n) ==
    LET first == IF n >= 1
                 THEN Upsert(coll, market_key(event), WithType("market_latest", event))
                 ELSE coll
    IN  IF n >= 2
        THEN Upsert(first, market_key(event), WithType("conviction_event", event))
        ELSE first

\* Mutant: the history document is inserted under a key counted from the
\* documents of the collection.
UpsertWrites_ins(coll, event, n) ==
    LET first == IF n >= 1
                 THEN Upsert(coll, market_key(event), WithType("market_latest", event))
                 ELSE coll
    IN  IF n >= 2
        THEN Upsert(first, <<"event::", <<"n", Cardinality(DOMAIN first)>>>>,
                    WithType("conviction_event", event))
        ELSE first

\* Mutant: the latest-per-market document is replaced only by an event that
\* is not older than the one it holds.
UpsertWrites_newest(coll, event, n) ==
    LET key == market_key(event)
        older == /\ key \in DOMAIN coll
                 /\ "timestamp" \in DOMAIN coll[key]
                 /\ "timestamp" \in DOMAIN event
                 /\ coll[key].timestamp[2][2] > event.timestamp[2][2]
        first == IF n >= 1 /\ ~older
                 THEN Upsert(coll, key, WithType("market_latest", event))
                 ELSE coll
    IN  IF n >= 2
        THEN Upsert(first, event_key(event), WithType("conviction_event", event))
        ELSE first

\* upsert_event up to its n-th collection.upsert call.
UpsertWrites(coll, event, n) ==
    LET first == IF n >= 1
                 THEN Upsert(coll, market_key(event), WithType("market_latest", event))
                 ELSE coll
    IN  IF n >= 2
        THEN Upsert(first, event_key(event), WithType("conviction_event", event))
        ELSE first

upsert_event(coll, event) == UpsertWrites(coll, event, 2)

\* ------------------------------------------ the producer and the log
\* The variables of run() at rest, for the runs that do not model its loop.
LoopIdle ==
    /\ stop_requested = FALSE
    /\ states = [m \in Markets |-> None]
    /\ active_subs = <<>>
    /\ page_no = 0
    /\ all_items = EmptyItems
    /\ tasks = <<>>
    /\ tick = 0
    /\ observed = [m \in Markets |-> None]
    /\ eval_count = [m \in Markets |-> 0]
    /\ last_eval = None
    /\ cycle = EmptyCycle
    /\ states_at_start = [m \in Markets |-> None]
    /\ outq = 0
    /\ shutdown = NoShutdown

PublishInit ==
    /\ pc = "publish"
    /\ LoopIdle
    /\ kafka_config \in Configs
    /\ produced = <<>>
    /\ inflight = <<>>
    /\ log = EmptyLog
    /\ position = [p \in Partitions |-> 0]
    /\ committed = [p \in Partitions |-> 0]
    /\ archive = EmptyArchive
    /\ last_poll = None
    /\ AuxIdle

\* One _process_subscription call of some poll cycle: the engine evaluates
\* the snapshot and, on a change, the event is built and publish_event hands
\* the record to Producer.produce, which queues it.
ProcessSubscription ==
    /\ pc = "publish"
    /\ Len(produced) < MaxLog
    /\ \E sub \in PipelineSubscriptions, price \in PipelinePrices :
          LET task == [sub |-> sub,
                       snapshot |-> [market_id |-> sub.market_id, yes_price |-> price,
                                     fetched_at |-> Now("fetch")]]
              res == Detect(task)
          IN  IF res.change = None
              THEN /\ Evaluated(task, res, None, None,
                                IF res.thresholds = None THEN "baseline" ELSE "suppressed")
                   /\ UNCHANGED <<produced, inflight, outq, aux_vars>>
              ELSE LET event == build_polymarket_event(task.snapshot, res.change[1],
                                                       <<"uuid4", tick, Len(produced)>>)
                       record == publish_event(event, Now("publish"))
                   IN  /\ Evaluated(task, res, Some(event), Some(record), "published")
                       /\ produced' = Append(produced, record)
                       /\ inflight' = Append(inflight, record)
                       /\ outq' = outq + 1
    /\ UNCHANGED <<pc, stop_requested, active_subs, page_no, all_items, tasks,
                   tick, cycle, states_at_start, shutdown, kafka_config, log,
                   position, committed, archive, last_poll, aux_vars>>

\* The queued records that are the oldest of their partition.
Deliverable ==
    {i \in 1..Len(inflight) :
        \A j \in 1..(i - 1) :
            PartitionOf(inflight[j].key) # PartitionOf(inflight[i].key)}

RemoveAt(q, i) == SubSeq(q, 1, i - 1) \o SubSeq(q, i + 1, Len(q))

\* The broker appends the i-th queued record to the partition of its key in
\* the topic named in produce().
Delivered(i) ==
    /\ log' = [log EXCEPT ![topic(kafka_config)][PartitionOf(inflight[i].key)] =
                              Append(@, LogRecord(inflight[i]))]
    /\ inflight' = RemoveAt(inflight, i)
    /\ outq' = outq - 1
    /\ UNCHANGED <<pc, stop_requested, states, active_subs, page_no, all_items,
                   tasks, tick, observed, eval_count, last_eval, cycle,
                   states_at_start, shutdown, kafka_config, produced, position,
                   committed, archive, last_poll, aux_vars>>

\* Mutant: the producer sends any queued record, not the oldest of its
\* partition (no idempotence, several requests in flight and a retry).
Deliver_mut ==
    /\ pc = "publish"
    /\ \E i \in 1..Len(inflight) : Delivered(i)

\* The producer (acks=all, enable.idempotence=True) delivers the oldest
\* queued record of a partition.
Deliver ==
    /\ pc = "publish"
    /\ \E i \in Deliverable : Delivered(i)

\* delivery.timeout.ms passes for the oldest queued record of a partition:
\* the producer gives it up and the record never reaches the log.
DeliveryFails ==
    /\ pc = "publish"
    /\ \E i \in Deliverable : inflight' = RemoveAt(inflight, i)
    /\ outq' = outq - 1
    /\ UNCHANGED <<pc, stop_requested, states, active_subs, page_no, all_items,
                   tasks, tick, observed, eval_count, last_eval, cycle,
                   states_at_start, shutdown, kafka_config, produced, log,
                   position, committed, archive, last_poll, aux_vars>>

PublishNext ==
    \/ ProcessSubscription
    \/ Deliver
    \/ DeliveryFails

SpecPublish == PublishInit /\ [][PublishNext]_vars

\* ------------------------------------------ the consumer and the archive
\* The records the producer puts on the topic: what publish_event makes of
\* the event of a first move of m1, of the move back, and of a move of m2.
MoveRecord(sub, from, to, n) ==
    LET snapshot == [market_id |-> sub.market_id, yes_price |-> to,
                     fetched_at |-> <<"fetch", n>>]
        state == [ConvictionState EXCEPT !.last_yes_price = Some(from)]
        res == detect_conviction_change(sub, snapshot, state, <<"detect", n>>)
    IN  LogRecord(publish_event(
            build_polymarket_event(snapshot, res.change[1], <<"uuid4", n, 0>>),
            <<"publish", n>>))

ProducerRecords ==
    {MoveRecord(sub, 45, 60, 1) : sub \in PipelineSubscriptions}
        \cup {MoveRecord(sub, 60, 45, 2) : sub \in {s \in PipelineSubscriptions : s.market_id = "m1"}}

InjestorInit ==
    /\ pc = "injestor"
    /\ LoopIdle
    /\ kafka_config = [topic |-> "polymarket-events", topic_prefix |-> ""]
    /\ produced = <<>>
    /\ inflight = <<>>
    /\ log = EmptyLog
    /\ position = [p \in Partitions |-> 0]
    /\ committed = [p \in Partitions |-> 0]
    /\ archive = EmptyArchive
    /\ last_poll = None
    /\ AuxIdle

\* The records on the subscribed topic.
NumRecords == Len(SubscribedLog[0]) + Len(SubscribedLog[1]) + Len(SubscribedLog[2])

\* A record, of the producer or of another one, is appended to the topic
\* the consumer subscribed to.
Arrive ==
    /\ pc = "injestor"
    /\ NumRecords < MaxLog
    /\ \E r \in ProducerRecords \cup ForeignRecords :
          log' = [log EXCEPT ![subscribed_topic(kafka_config)][PartitionOf(r.key)] =
                                 Append(@, r)]
    /\ UNCHANGED <<pc, stop_requested, states, active_subs, page_no, all_items,
                   tasks, tick, observed, eval_count, last_eval, cycle,
                   states_at_start, outq, shutdown, kafka_config, produced,
                   inflight, position, committed, archive, last_poll, aux_vars>>

\* The collection.upsert calls upsert_event made when `writes` of them
\* returned: the statements of upsert_event run in order with no try
\* around them, so the call that raises is the last one made.
UpsertCalls(handed, writes) ==
    IF handed = 0 THEN 0 ELSE IF writes = 2 THEN 2 ELSE writes + 1

\* What the iteration wrote with logger.error: "Failed to decode JSON
\* message" inside poll, "Error processing event" for an exception caught
\* by the loop, "Failed to persist event to Couchbase" for one raised by
\* upsert_event.
Logged(msg, handed, writes) ==
    IF msg = None THEN "none"
    ELSE IF msg[1].kind = "bad_json" THEN "decode"
    ELSE IF msg[1].kind \in {"bad_utf8", "array"} THEN "processing"
    ELSE IF handed = 1 /\ writes < 2 THEN "persist"
    ELSE "none"

\* The history of one iteration of the loop of StrategyInjestorRunner.run:
\* the message Consumer.poll returned, how many events were handed to
\* upsert_event, how many collection.upsert calls it made and how many
\* returned, the error logged, and whether the message is the one the
\* iteration before it took and projected.
PollRecord(p, msg, handed, writes) ==
    [partition |-> p, offset |-> position[p], msg |-> msg, handed |-> handed,
     writes |-> writes,
     attempts |-> UpsertCalls(handed, writes),
     logged |-> Logged(msg, handed, writes),
     again |-> last_poll # None /\ last_poll[1].msg = msg /\ last_poll[1].writes = 2]

\* The consumer takes the next message of partition p; the iteration ends
\* with the events and writes given.
Consumed(p, handed, writes) ==
    /\ position' = [position EXCEPT ![p] = @ + 1]
    /\ last_poll' = Some(PollRecord(p, Some(SubscribedLog[p][position[p] + 1]),
                                    handed, writes))
    /\ UNCHANGED <<pc, stop_requested, states, active_subs, page_no, all_items,
                   tasks, tick, observed, eval_count, last_eval, cycle,
                   states_at_start, outq, shutdown, kafka_config, produced,
                   inflight, log, committed, aux_vars>>

\* The event run() hands to upsert_event for a message: the one poll
\* returns, when it is an object.  None from poll is the `continue` of the
\* timeout branch; an error raised by poll, or by event.get on a value that
\* is not an object, is caught by the except clause of the loop.
EventOf(msg) ==
    LET polled == poll(msg)
    IN  IF polled.raised \/ polled.event = None THEN None
        ELSE IF polled.event[1].kind # "object" THEN None
        ELSE Some(polled.event[1].body)

\* poll's timeout passes with no message: event is None.
ConsumeNothing ==
    /\ pc = "injestor"
    /\ last_poll' = Some([partition |-> -1, offset |-> 0, msg |-> None, handed |-> 0,
                          writes |-> 0, attempts |-> 0, logged |-> "none",
                          again |-> FALSE])
    /\ last_poll' # last_poll
    /\ UNCHANGED <<pc, stop_requested, states, active_subs, page_no, all_items,
                   tasks, tick, observed, eval_count, last_eval, cycle,
                   states_at_start, outq, shutdown, kafka_config, produced,
                   inflight, log, position, committed, archive, aux_vars>>

\* An iteration whose message gives no event to project.
ConsumeSkip ==
    /\ pc = "injestor"
    /\ \E p \in Partitions :
          /\ position[p] < Len(SubscribedLog[p])
          /\ EventOf(SubscribedLog[p][position[p] + 1]) = None
          /\ archive' = archive
          /\ Consumed(p, 0, 0)

\* An iteration whose event is projected: both collection.upsert calls of
\* upsert_event return.
ConsumeProject ==
    /\ pc = "injestor"
    /\ \E p \in Partitions :
          /\ position[p] < Len(SubscribedLog[p])
          /\ LET event == EventOf(SubscribedLog[p][position[p] + 1])
             IN  /\ event # None
                 /\ archive' = upsert_event(archive, event[1])
                 /\ Consumed(p, 1, 2)

\* An iteration whose upsert_event raises at its first or at its second
\* collection.upsert call: run() logs the error and goes on.
ConsumeProjectFails ==
    /\ pc = "injestor"
    /\ \E p \in Partitions, n \in {0, 1} :
          /\ position[p] < Len(SubscribedLog[p])
          /\ LET event == EventOf(SubscribedLog[p][position[p] + 1])
             IN  /\ event # None
                 /\ archive' = UpsertWrites(archive, event[1], n)
                 /\ Consumed(p, 1, n)

\* enable.auto.commit: the positions are committed to the group.
AutoCommit ==
    /\ pc = "injestor"
    /\ committed # position
    /\ committed' = position
    /\ UNCHANGED <<pc, stop_requested, states, active_subs, page_no, all_items,
                   tasks, tick, observed, eval_count, last_eval, cycle,
                   states_at_start, outq, shutdown, kafka_config, produced,
                   inflight, log, position, archive, last_poll, aux_vars>>

\* The consumer process is restarted: a new KafkaConsumer of the same group
\* resumes at the committed offsets, and the records read since the last
\* commit are delivered again.
Restart ==
    /\ pc = "injestor"
    /\ position # committed
    /\ position' = committed
    /\ UNCHANGED <<pc, stop_requested, states, active_subs, page_no, all_items,
                   tasks, tick, observed, eval_count, last_eval, cycle,
                   states_at_start, outq, shutdown, kafka_config, produced,
                   inflight, log, committed, archive, last_poll, aux_vars>>

InjestorNext ==
    \/ Arrive
    \/ ConsumeNothing
    \/ ConsumeSkip
    \/ ConsumeProject
    \/ ConsumeProjectFails
    \/ AutoCommit
    \/ Restart

SpecInjestor == InjestorInit /\ [][InjestorNext]_vars

\* ------------------------------------- the consumer's run() step by step
\* StrategyInjestorRunner.run with its stop flag and its finally clause.
\* The SIGINT/SIGTERM handler of __main__ calls request_stop between any
\* two statements of the loop, so an iteration is two steps here: the poll
\* and the handling of what it returned.
idle_vars == <<states, active_subs, page_no, all_items, tasks, tick, observed,
               eval_count, last_eval, cycle, states_at_start, outq,
               kafka_config, produced, inflight, committed>>

\* The records on the topic when the consumer starts (auto.offset.reset =
\* earliest): events of m1 in partition 0, and at most one record that is
\* not JSON in partition 2.
ConsumerLogs ==
    {[EmptyLog EXCEPT !["polymarket-events"] =
          [p \in Partitions |-> IF p = 0 THEN events ELSE IF p = 2 THEN bad ELSE <<>>]] :
        events \in SeqsUpTo({r \in ProducerRecords : r.key = "m1"}, MaxLog),
        bad \in SeqsUpTo({r \in ForeignRecords : r.kind = "bad_json"}, 1)}

ConsumerInit ==
    /\ pc = "consume"
    /\ LoopIdle
    /\ kafka_config = [topic |-> "polymarket-events", topic_prefix |-> ""]
    /\ produced = <<>>
    /\ inflight = <<>>
    /\ log \in ConsumerLogs
    /\ position = [p \in Partitions |-> 0]
    /\ committed = [p \in Partitions |-> 0]
    /\ archive = EmptyArchive
    /\ last_poll = None
    /\ AuxIdle

\* request_stop, called by the signal handler: the loop is at its test or
\* in the middle of an iteration.
InjestorRequestStop ==
    /\ pc \in {"consume", "handle"}
    /\ ~stop_requested
    /\ stop_requested' = TRUE
    /\ shutdown' = [shutdown EXCEPT !.stop_early = (pc = "handle")]
    /\ UNCHANGED <<pc, idle_vars, log, position, archive, last_poll, aux_vars>>

\* `while not self._stop_requested` found true and poll returned the next
\* message of a partition.
InjestorPoll ==
    /\ pc = "consume"
    /\ ~stop_requested
    /\ \E p \in Partitions :
          /\ position[p] < Len(SubscribedLog[p])
          /\ position' = [position EXCEPT ![p] = @ + 1]
          /\ last_poll' = Some(PollRecord(p, Some(SubscribedLog[p][position[p] + 1]), 0, 0))
    /\ pc' = "handle"
    /\ UNCHANGED <<stop_requested, shutdown, idle_vars, log, archive, aux_vars>>

\* `while not self._stop_requested` found true and poll's timeout passed
\* with no message: `continue`.
InjestorPollTimeout ==
    /\ pc = "consume"
    /\ ~stop_requested
    /\ last_poll' = Some([partition |-> -1, offset |-> 0, msg |-> None, handed |-> 0,
                          writes |-> 0, attempts |-> 0, logged |-> "none",
                          again |-> FALSE])
    /\ last_poll' # last_poll
    /\ UNCHANGED <<pc, stop_requested, shutdown, idle_vars, log, position, archive, aux_vars>>

\* Mutant: an exception of upsert_event is not caught and run() leaves its
\* loop for the finally clause.
InjestorHandleWith_mut(N) ==
    /\ pc = "handle"
    /\ LET msg == last_poll[1].msg
           ev == EventOf(msg[1])
       IN  IF ev = None
           THEN /\ archive' = archive
                /\ last_poll' = last_poll
                /\ pc' = "consume"
           ELSE \E n \in N :
                   /\ archive' = UpsertWrites(archive, ev[1], n)
                   /\ last_poll' = Some([last_poll[1] EXCEPT
                                            !.handed = 1,
                                            !.writes = n,
                                            !.attempts = UpsertCalls(1, n),
                                            !.logged = "none"])
                   /\ pc' = IF n = 2 THEN "consume" ELSE "close_consumer"
    /\ UNCHANGED <<stop_requested, shutdown, idle_vars, log, position, aux_vars>>

\* The rest of the iteration for the message polled: nothing for a value
\* that gives no event; otherwise upsert_event, of whose collection.upsert
\* calls n return, n drawn from N.
InjestorHandleWith(N) ==
    /\ pc = "handle"
    /\ LET msg == last_poll[1].msg
           ev == EventOf(msg[1])
       IN  IF ev = None
           THEN /\ archive' = archive
                /\ last_poll' = last_poll
           ELSE \E n \in N :
                   /\ archive' = UpsertWrites(archive, ev[1], n)
                   /\ last_poll' = Some([last_poll[1] EXCEPT
                                            !.handed = 1,
                                            !.writes = n,
                                            !.attempts = UpsertCalls(1, n),
                                            !.logged = Logged(msg, 1, n)])
    /\ pc' = "consume"
    /\ UNCHANGED <<stop_requested, shutdown, idle_vars, log, position, aux_vars>>

InjestorHandle == InjestorHandleWith(0..2)

\* Mutant: the stop flag is acted on in the middle of an iteration, and the
\* event polled is dropped.
InjestorExit_mut ==
    /\ pc \in {"consume", "handle"}
    /\ stop_requested
    /\ pc' = "close_consumer"
    /\ shutdown' = [shutdown EXCEPT !.why = "stop"]
    /\ UNCHANGED <<stop_requested, idle_vars, log, position, archive, last_poll, aux_vars>>

\* `while not self._stop_requested` found false: run() goes to its finally
\* clause.
InjestorExit ==
    /\ pc = "consume"
    /\ stop_requested
    /\ pc' = "close_consumer"
    /\ shutdown' = [shutdown EXCEPT !.why = "stop"]
    /\ UNCHANGED <<stop_requested, idle_vars, log, position, archive, last_poll, aux_vars>>

\* self._kafka_consumer.close()
CloseConsumer ==
    /\ pc = "close_consumer"
    /\ shutdown' = [shutdown EXCEPT !.calls = Append(@, "close_consumer")]
    /\ pc' = "close_archive"
    /\ UNCHANGED <<stop_requested, idle_vars, log, position, archive, last_poll, aux_vars>>

\* self._couchbase.close()
CloseArchive ==
    /\ pc = "close_archive"
    /\ shutdown' = [shutdown EXCEPT !.calls = Append(@, "close_archive")]
    /\ pc' = "stopped"
    /\ UNCHANGED <<stop_requested, idle_vars, log, position, archive, last_poll, aux_vars>>

\* The steps run() takes by itself, with upsert_event's outcome from N.
ConsumerStepWith(N) ==
    \/ InjestorPoll
    \/ InjestorHandleWith(N)
    \/ InjestorExit
    \/ CloseConsumer
    \/ CloseArchive

ConsumerNext ==
    \/ InjestorRequestStop
    \/ InjestorPoll
    \/ InjestorPollTimeout
    \/ InjestorHandle
    \/ InjestorExit
    \/ CloseConsumer
    \/ CloseArchive

\* run() keeps running and the broker hands over a record that is there.
SpecConsumer == ConsumerInit /\ [][ConsumerNext]_vars /\ WF_vars(ConsumerStepWith(0..2))

\* The archive is dead: every collection.upsert call raises.
DeadArchiveHandle == InjestorHandleWith({0})

DeadArchiveNext ==
    \/ InjestorRequestStop
    \/ InjestorPoll
    \/ InjestorPollTimeout
    \/ DeadArchiveHandle
    \/ InjestorExit
    \/ CloseConsumer
    \/ CloseArchive

SpecDeadArchive == ConsumerInit /\ [][DeadArchiveNext]_vars /\ WF_vars(ConsumerStepWith({0}))

\* ------------------------------------------------ subscription_manager.py
\* subscribe and unsubscribe of market m1 called from several threads.  A
\* call reads datetime.now() and then issues one update_one; the server
\* applies an update to a document it matched in one step, and an upsert
\* that matched none inserts in a later step (the collection has no unique
\* index on market_id).
Callers == 1..MaxCallers

\* A document of the collection; slug and the thresholds are not touched by
\* the two calls on an existing document.
StoreDoc(ref_count, created_at, updated_at) ==
    [market_id |-> "m1", ref_count |-> ref_count, created_at |-> created_at,
     updated_at |-> updated_at]

StoreInit ==
    /\ pc = "store"
    /\ LoopIdle
    /\ PipelineIdle
    /\ ClientIdle
    /\ collection \in {<<>>} \cup {<<StoreDoc(r, <<"t", 0>>, <<"t", 0>>)>> : r \in RefCounts}
    /\ collection_at_start = collection
    /\ callers \in [Callers -> [op : {"subscribe", "unsubscribe", "none"},
                                 pc : {"call"}, now : {None}]]
    /\ clock = 1

\* now = datetime.now(timezone.utc), the first statement of both calls.
CallNow ==
    /\ pc = "store"
    /\ \E c \in Callers :
          /\ callers[c].pc = "call"
          /\ callers[c].op # "none"
          /\ callers' = [callers EXCEPT ![c].pc = "update", ![c].now = Some(<<"t", clock>>)]
          /\ clock' = clock + 1
    /\ UNCHANGED <<pc, stop_requested, states, active_subs, page_no, all_items,
                   tasks, tick, observed, eval_count, last_eval, cycle,
                   states_at_start, outq, shutdown, pipeline_vars, collection,
                   collection_at_start, client_vars>>

\* Mutant: the count written is the one read when the call started, plus d.
Updated_mut(doc, d, now) ==
    [doc EXCEPT !.ref_count = (IF collection_at_start = <<>> THEN 0
                               ELSE collection_at_start[1].ref_count) + d,
                !.updated_at = now]

\* $inc of ref_count by d and $set of updated_at on the document matched.
Updated(doc, d, now) ==
    [doc EXCEPT !.ref_count = @ + d, !.updated_at = now]

\* update_one({"market_id": market_id}, update, upsert=...) reaches the
\* server: the first document of the market is updated; with no document,
\* unsubscribe changes nothing and subscribe goes on to insert.
UpdateOne ==
    /\ pc = "store"
    /\ \E c \in Callers :
          /\ callers[c].pc = "update"
          /\ LET d == IF callers[c].op = "subscribe" THEN 1 ELSE -1
             IN  IF collection # <<>>
                 THEN /\ collection' = [collection EXCEPT
                                           ![1] = Updated(@, d, callers[c].now[1])]
                      /\ callers' = [callers EXCEPT ![c].pc = "done"]
                 ELSE /\ collection' = collection
                      /\ callers' = [callers EXCEPT
                                        ![c].pc = IF callers[c].op = "subscribe"
                                                  THEN "insert" ELSE "missed"]
    /\ UNCHANGED <<pc, stop_requested, states, active_subs, page_no, all_items,
                   tasks, tick, observed, eval_count, last_eval, cycle,
                   states_at_start, outq, shutdown, pipeline_vars,
                   collection_at_start, clock, client_vars>>

\* The upsert that matched no document inserts one: the fields of the
\* filter, $inc on an absent field, $setOnInsert and $set.
Insert ==
    /\ pc = "store"
    /\ \E c \in Callers :
          /\ callers[c].pc = "insert"
          /\ collection' = Append(collection,
                                  StoreDoc(1, callers[c].now[1], callers[c].now[1]))
          /\ callers' = [callers EXCEPT ![c].pc = "inserted"]
    /\ UNCHANGED <<pc, stop_requested, states, active_subs, page_no, all_items,
                   tasks, tick, observed, eval_count, last_eval, cycle,
                   states_at_start, outq, shutdown, pipeline_vars,
                   collection_at_start, clock, client_vars>>

StoreNext ==
    \/ CallNow
    \/ UpdateOne
    \/ Insert

SpecStore == StoreInit /\ [][StoreNext]_vars

\* ---------------------------------------------------------- data_source.py
\* One PolymarketClient used from two worker threads of the default
\* executor, one per async wrapper (fetch_all_markets_async and
\* fetch_market_by_slug_async); each runs one _request_with_retries call.
\* Time is time.monotonic() in half seconds: the backoff sleeps are 1 and 2.
Workers == {"w1", "w2"}
MaxRetries == 3
MonoAtStart == 3
RateLimitDelays == {1, 3}
StatusClasses == {"2xx", "3xx", "4xx", "5xx"}
TransportErrors == {"Timeout", "ConnectionError"}
Responses == StatusClasses \cup TransportErrors

\* A thread outside the client.
NoWorker ==
    [op |-> "none", pc |-> "none", attempt |-> 0, wake |-> 0, last_exc |-> None,
     sent |-> 0, slept |-> 0, response |-> None]

\* A thread entering the loop of _request_with_retries.
\* sent, slept, response: requests made, backoff sleeps started, last answer.
NewWorker ==
    [op |-> "call", pc |-> "limit", attempt |-> 1, wake |-> 0, last_exc |-> None,
     sent |-> 0, slept |-> 0, response |-> None]

\* The client after __init__ (_last_request_time = 0.0) or after earlier
\* requests, the last of them stamped a moment ago.
ClientInit ==
    /\ pc = "client"
    /\ LoopIdle
    /\ PipelineIdle
    /\ StoreIdle
    /\ parsing = <<>>
    /\ workers \in [Workers -> {NoWorker, NewWorker}]
    /\ mono = MonoAtStart
    /\ last_request_time \in {0, MonoAtStart - 1, MonoAtStart}
    /\ rate_limit_delay \in RateLimitDelays

\* Time passes.
Tick ==
    /\ pc = "client"
    /\ mono < MonoAtStart + MaxMono
    /\ mono' = mono + 1
    /\ UNCHANGED <<pc, stop_requested, states, active_subs, page_no, all_items,
                   tasks, tick, observed, eval_count, last_eval, cycle,
                   states_at_start, outq, shutdown, pipeline_vars, store_vars,
                   workers, last_request_time, rate_limit_delay, parsing>>

\* _rate_limit() up to its sleep: the clock and _last_request_time are read,
\* and the thread sleeps for what is left of the delay.
RateLimit ==
    /\ pc = "client"
    /\ \E w \in Workers :
          /\ workers[w].pc = "limit"
          /\ LET elapsed == mono - last_request_time
             IN  workers' = [workers EXCEPT
                                ![w].pc = IF elapsed < rate_limit_delay
                                          THEN "sleep" ELSE "send",
                                ![w].wake = IF elapsed < rate_limit_delay
                                            THEN mono + (rate_limit_delay - elapsed)
                                            ELSE 0]
    /\ UNCHANGED <<pc, stop_requested, states, active_subs, page_no, all_items,
                   tasks, tick, observed, eval_count, last_eval, cycle,
                   states_at_start, outq, shutdown, pipeline_vars, store_vars,
                   mono, last_request_time, rate_limit_delay, parsing>>

\* time.sleep() of _rate_limit returns.
RateLimitWake ==
    /\ pc = "client"
    /\ \E w \in Workers :
          /\ workers[w].pc = "sleep"
          /\ mono >= workers[w].wake
          /\ workers' = [workers EXCEPT ![w].pc = "send", ![w].wake = 0]
    /\ UNCHANGED <<pc, stop_requested, states, active_subs, page_no, all_items,
                   tasks, tick, observed, eval_count, last_eval, cycle,
                   states_at_start, outq, shutdown, pipeline_vars, store_vars,
                   mono, last_request_time, rate_limit_delay, parsing>>

\* 0.5 * 2 ** (attempt - 1) seconds.
Backoff(attempt) == 2 ^ (attempt - 1)

\* Mutant: client errors are retried like server errors.
AfterResponse_mut(wk, r) ==
    IF r = "2xx"
    THEN [wk EXCEPT !.pc = "returned"]
    ELSE LET exc == IF r \in StatusClasses
                    THEN <<"PolymarketApiError", r, wk.attempt>>
                    ELSE <<r, wk.attempt>>
         IN  IF r = "3xx"
             THEN [wk EXCEPT !.pc = "raised", !.last_exc = Some(exc)]
             ELSE IF wk.attempt < MaxRetries
             THEN [wk EXCEPT !.pc = "backoff", !.last_exc = Some(exc),
                             !.wake = mono + Backoff(wk.attempt),
                             !.slept = @ + 1]
             ELSE [wk EXCEPT !.pc = "raised", !.last_exc = Some(exc)]

\* The rest of one iteration, given the answer r of session.request: a 2xx
\* response is returned; a status outside 2xx and 5xx raises
\* PolymarketApiError out of the loop; a 5xx response or a Timeout or
\* ConnectionError becomes last_exc, followed by the backoff sleep when
\* attempt < max_retries and by `raise last_exc` otherwise.  An exception is
\* kept with the attempt that made it.
AfterResponse(wk, r) ==
    IF r = "2xx"
    THEN [wk EXCEPT !.pc = "returned"]
    ELSE LET exc == IF r \in StatusClasses
                    THEN <<"PolymarketApiError", r, wk.attempt>>
                    ELSE <<r, wk.attempt>>
         IN  IF r \in {"3xx", "4xx"}
             THEN [wk EXCEPT !.pc = "raised", !.last_exc = Some(exc)]
             ELSE IF wk.attempt < MaxRetries
             THEN [wk EXCEPT !.pc = "backoff", !.last_exc = Some(exc),
                             !.wake = mono + Backoff(wk.attempt),
                             !.slept = @ + 1]
             ELSE [wk EXCEPT !.pc = "raised", !.last_exc = Some(exc)]

\* The last statement of _rate_limit() and session.request(): the request
\* goes out at the reading of the clock that is stored in
\* _last_request_time, and is answered.
SendBy(w) ==
    /\ pc = "client"
    /\ workers[w].pc = "send"
    /\ last_request_time' = mono
    /\ \E r \in Responses :
          workers' = [workers EXCEPT
                         ![w] = AfterResponse([@ EXCEPT !.sent = @ + 1,
                                                        !.response = Some(r)], r)]
    /\ UNCHANGED <<pc, stop_requested, states, active_subs, page_no, all_items,
                   tasks, tick, observed, eval_count, last_eval, cycle,
                   states_at_start, outq, shutdown, pipeline_vars, store_vars,
                   mono, rate_limit_delay, parsing>>

Send == \E w \in Workers : SendBy(w)

\* time.sleep(backoff) returns and the loop takes its next attempt.
BackoffWake ==
    /\ pc = "client"
    /\ \E w \in Workers :
          /\ workers[w].pc = "backoff"
          /\ mono >= workers[w].wake
          /\ workers' = [workers EXCEPT ![w].pc = "limit", ![w].wake = 0,
                                        ![w].attempt = @ + 1]
    /\ UNCHANGED <<pc, stop_requested, states, active_subs, page_no, all_items,
                   tasks, tick, observed, eval_count, last_eval, cycle,
                   states_at_start, outq, shutdown, pipeline_vars, store_vars,
                   mono, last_request_time, rate_limit_delay, parsing>>

ClientNext ==
    \/ Tick
    \/ RateLimit
    \/ RateLimitWake
    \/ Send
    \/ BackoffWake

SpecClient == ClientInit /\ [][ClientNext]_vars

\* ------------------------------------------- data_source.py: market records
\* A JSON value: a number (in hundredths), a string, null or a list.
Num(n) == [t |-> "num", n |-> n, s |-> "", items |-> <<>>]
Str(s) == [t |-> "str", n |-> 0, s |-> s, items |-> <<>>]
Null == [t |-> "null", n |-> 0, s |-> "", items |-> <<>>]
List(items) == [t |-> "list", n |-> 0, s |-> "", items |-> items]

\* A field of a record: absent (or null or empty), a string holding JSON
\* text of the value v, a string that is not JSON, or the value v itself.
Absent == [form |-> "absent", valid |-> FALSE, v |-> Null]
Text(v) == [form |-> "text", valid |-> TRUE, v |-> v]
NotJson == [form |-> "text", valid |-> FALSE, v |-> Null]
Value(v) == [form |-> "value", valid |-> TRUE, v |-> v]

\* float(x) of the decimal strings of the domain, in hundredths.
DecimalText == [s \in {"0.72", "0.28"} |-> IF s = "0.72" THEN 72 ELSE 28]

\* str.lower() on the labels of the domain.
Lower == [s \in {"Yes", "No", "Long", "Maybe", ""} |->
             CASE s = "Yes" -> "yes"
               [] s = "No" -> "no"
               [] s = "Long" -> "long"
               [] s = "Maybe" -> "maybe"
               [] OTHER -> ""]

\* float(x): Some(number), or None for ValueError and TypeError.
Float(x) ==
    CASE x.t = "num" -> Some(x.n)
      [] x.t = "str" -> IF x.s \in DOMAIN DecimalText THEN Some(DecimalText[x.s])
                        ELSE None
      [] OTHER -> None

\* bool(x) of a field as fetched with data.get().
Truthy(f) == f.form # "absent"

\* json.loads(raw) if isinstance(raw, str) else raw: Some(value), or None
\* for JSONDecodeError.
Decode(f) == IF f.form = "text" /\ ~f.valid THEN None ELSE Some(f.v)

\* The items a market record is drawn from.
Element == {Str("0.72"), Num(28), Str("abc"), Null}
OutcomesRaw ==
    {Absent, NotJson, Text(List(<<Str("Yes"), Str("No")>>)),
     Value(List(<<Str("No"), Str("Long")>>)),
     Text(List(<<Str("Maybe"), Str("No")>>)), Text(Num(5))}
OutcomePricesRaw ==
    {Absent, NotJson, Text(List(<<Str("0.72")>>))}
       \cup {Text(List(<<a, b>>)) : a, b \in Element}
Token == [outcome : {None, Some("Yes"), Some("No")},
          price : {None, Some(Num(40)), Some(Str("abc")), Some(Null)}]
TokensRaw ==
    {Absent} \cup {Value(List(<<t>>)) : t \in Token}
       \cup {Value(List(<<t, u>>)) :
                t \in {x \in Token : x.outcome = Some("Yes")},
                u \in {x \in Token : x.outcome = Some("No")}}
Record ==
    [type : {"dict"}, market_id : {None, Some("m1"), Some("m2")},
     outcomes : OutcomesRaw, outcomePrices : OutcomePricesRaw,
     tokens : TokensRaw]

\* An item of the response that is not an object.
NonObject ==
    [type |-> "other", market_id |-> None, outcomes |-> Absent,
     outcomePrices |-> Absent, tokens |-> Absent]

\* The two prices found so far.
NoPrices == [yes |-> None, no |-> None]

\* One more labelled price: the first price of a side is kept.
Assign(found, label, p) ==
    IF label \in {"yes", "long"} /\ found.yes = None
    THEN [found EXCEPT !.yes = Some(p)]
    ELSE IF label \in {"no", "short"} /\ found.no = None
    THEN [found EXCEPT !.no = Some(p)]
    ELSE found

\* The loop over enumerate(outcomes) from index i on.
RECURSIVE PackedScan(_, _, _, _)
PackedScan(outcomes, prices, i, found) ==
    IF i > Len(outcomes) THEN found
    ELSE LET p == Float(prices[i])
         IN  PackedScan(outcomes, prices, i + 1,
                        IF p = None THEN found
                        ELSE Assign(found, Lower[outcomes[i].s], p[1]))

\* float(token.get("price", 0)).
TokenPrice(token) ==
    IF token.price = None THEN Float(Num(0)) ELSE Float(token.price[1])

\* The loop over tokens from index i on.
RECURSIVE TokenScan(_, _, _)
TokenScan(tokens, i, found) ==
    IF i > Len(tokens) THEN found
    ELSE LET label == IF tokens[i].outcome = None THEN Lower[""]
                      ELSE Lower[tokens[i].outcome[1]]
             p == TokenPrice(tokens[i])
         IN  TokenScan(tokens, i + 1,
                       IF p = None THEN found ELSE Assign(found, label, p[1]))

\* What a call of the parser gives: a snapshot, None or an exception.
Snapshot(market_id, yes_price, no_price) ==
    [kind |-> "snapshot", exc |-> "",
     snapshot |-> Some([market_id |-> market_id, yes_price |-> yes_price,
                        no_price |-> no_price])]
ReturnsNone == [kind |-> "none", exc |-> "", snapshot |-> None]
Raises(exc) == [kind |-> "raise", exc |-> exc, snapshot |-> None]

\* _parse_gamma_market(data); question, volume, liquidity, active, closed
\* and fetched_at of the snapshot are left out.
ParseGammaMarket(data) ==
    IF data.market_id = None THEN ReturnsNone
    ELSE
    LET both == Truthy(data.outcomes) /\ Truthy(data.outcomePrices)
        decoded == both /\ Decode(data.outcomes) # None
                        /\ Decode(data.outcomePrices) # None
        outcomes == IF decoded THEN Decode(data.outcomes) ELSE None
        prices == IF decoded THEN Decode(data.outcomePrices) ELSE None
    IN  IF decoded /\ (outcomes[1].t # "list" \/ prices[1].t # "list")
        THEN Raises("TypeError")
        ELSE
        LET packed == IF decoded /\ Len(outcomes[1].items) = 2
                                 /\ Len(prices[1].items) = 2
                      THEN PackedScan(outcomes[1].items, prices[1].items, 1, NoPrices)
                      ELSE NoPrices
            found == IF (packed.yes = None \/ packed.no = None)
                        /\ data.tokens.form # "absent"
                     THEN TokenScan(data.tokens.v.items, 1, packed)
                     ELSE packed
        IN  IF found.yes = None \/ found.no = None THEN ReturnsNone
            ELSE Snapshot(data.market_id[1], found.yes[1], found.no[1])

\* A record in the packed format with both prices.
Good(m) ==
    [type |-> "dict", market_id |-> Some(m),
     outcomes |-> Text(List(<<Str("Yes"), Str("No")>>)),
     outcomePrices |-> Text(List(<<Str("0.72"), Num(28)>>)),
     tokens |-> Absent]

\* The items the pages of a bulk fetch are drawn from.
Sample ==
    {Good("m1"), Good("m2"), NonObject,
     [Good("m1") EXCEPT !.outcomePrices = NotJson],
     [Good("m2") EXCEPT !.outcomes = Text(Num(5))],
     [Good("m1") EXCEPT !.outcomePrices = Absent],
     [Good("m2") EXCEPT !.market_id = None]}

NoResult == [m \in Markets |-> None]

\* fetch_all_markets() once its pages are in: all_items holds one record of
\* the whole domain, or up to MaxItems items of the sample.
FetchInit ==
    /\ pc = "parse"
    /\ LoopIdle
    /\ PipelineIdle
    /\ StoreIdle
    /\ workers = <<>>
    /\ mono = 0
    /\ last_request_time = 0
    /\ rate_limit_delay = 0
    /\ \E items \in SeqsOf(Record, 1, 1) \cup SeqsOf(Sample, 2, MaxItems) :
          parsing = [pc |-> "parse", all_items |-> items, i |-> 1,
                     result |-> NoResult, outcome |-> ReturnsNone]

\* Mutant: an exception of the parser leaves the loop.
AfterParse_mut(p, out) ==
    IF out.kind = "snapshot"
    THEN [p EXCEPT !.result[out.snapshot[1].market_id] = out.snapshot,
                   !.outcome = out, !.i = @ + 1]
    ELSE IF out.kind = "raise"
    THEN [p EXCEPT !.outcome = out, !.pc = "aborted"]
    ELSE [p EXCEPT !.outcome = out, !.i = @ + 1]

\* The body of the try statement and its except clauses: a snapshot is
\* stored under its market_id, PolymarketApiError is raised again, any other
\* exception is logged and the loop goes on.
AfterParse(p, out) ==
    IF out.kind = "snapshot"
    THEN [p EXCEPT !.result[out.snapshot[1].market_id] = out.snapshot,
                   !.outcome = out, !.i = @ + 1]
    ELSE IF out.kind = "raise" /\ out.exc = "PolymarketApiError"
    THEN [p EXCEPT !.outcome = out, !.pc = "aborted"]
    ELSE [p EXCEPT !.outcome = out, !.i = @ + 1]

\* One iteration of `for item in all_items`.
ParseItem ==
    /\ pc = "parse"
    /\ parsing.pc = "parse"
    /\ parsing.i <= Len(parsing.all_items)
    /\ LET item == parsing.all_items[parsing.i]
       IN  parsing' = IF item.type # "dict"
                      THEN [parsing EXCEPT !.i = @ + 1, !.outcome = ReturnsNone]
                      ELSE AfterParse(parsing, ParseGammaMarket(item))
    /\ UNCHANGED <<pc, stop_requested, states, active_subs, page_no, all_items,
                   tasks, tick, observed, eval_count, last_eval, cycle,
                   states_at_start, outq, shutdown, pipeline_vars, store_vars,
                   workers, mono, last_request_time, rate_limit_delay>>

\* return result
ReturnResult ==
    /\ pc = "parse"
    /\ parsing.pc = "parse"
    /\ parsing.i > Len(parsing.all_items)
    /\ parsing' = [parsing EXCEPT !.pc = "returned"]
    /\ UNCHANGED <<pc, stop_requested, states, active_subs, page_no, all_items,
                   tasks, tick, observed, eval_count, last_eval, cycle,
                   states_at_start, outq, shutdown, pipeline_vars, store_vars,
                   workers, mono, last_request_time, rate_limit_delay>>

FetchNext ==
    \/ ParseItem
    \/ ReturnResult

SpecFetch == FetchInit /\ [][FetchNext]_vars

\* ------------------------------------- data_source.py: the pages of a fetch
\* fetch_all_markets up to its parse loop.  A page is kept by its length;
\* parsing holds the offsets requested so far, the length of the last page
\* and len(all_items).
page_size == 500
range_stop == 10000
PageLengths == {0, 499, 500, 501}

\* range(0, 10_000, page_size)
PageOffsets == {k * page_size : k \in 0..((range_stop - 1) \div page_size)}

PagingInit ==
    /\ pc = "paging"
    /\ LoopIdle
    /\ PipelineIdle
    /\ StoreIdle
    /\ workers = <<>>
    /\ mono = 0
    /\ last_request_time = 0
    /\ rate_limit_delay = 0
    /\ parsing = [pc |-> "page", offsets |-> <<>>, last |-> 0, n_items |-> 0]

\* The offset the `for` statement binds next.
NextOffset == Len(parsing.offsets) * page_size

\* Mutant: only an empty page ends the pagination.
LastPage_mut(length) == length = 0

\* `if len(page) < page_size: break`
LastPage(length) == length < page_size

\* One iteration of the `for` statement: _fetch_page(offset, page_size)
\* returns a page, which is appended to all_items; the loop ends on a last
\* page or when the range is used up.
FetchPage ==
    /\ pc = "paging"
    /\ parsing.pc = "page"
    /\ NextOffset \in PageOffsets
    /\ \E length \in PageLengths :
          parsing' = [pc |-> IF LastPage(length)
                                \/ NextOffset + page_size \notin PageOffsets
                             THEN "parse" ELSE "page",
                      offsets |-> Append(parsing.offsets, NextOffset),
                      last |-> length,
                      n_items |-> parsing.n_items + length]
    /\ UNCHANGED <<pc, stop_requested, states, active_subs, page_no, all_items,
                   tasks, tick, observed, eval_count, last_eval, cycle,
                   states_at_start, outq, shutdown, pipeline_vars, store_vars,
                   workers, mono, last_request_time, rate_limit_delay>>

\* _fetch_page(offset, page_size) raises and fetch_all_markets with it.
FetchPageRaises ==
    /\ pc = "paging"
    /\ parsing.pc = "page"
    /\ NextOffset \in PageOffsets
    /\ parsing' = [parsing EXCEPT !.pc = "raised",
                                  !.offsets = Append(@, NextOffset)]
    /\ UNCHANGED <<pc, stop_requested, states, active_subs, page_no, all_items,
                   tasks, tick, observed, eval_count, last_eval, cycle,
                   states_at_start, outq, shutdown, pipeline_vars, store_vars,
                   workers, mono, last_request_time, rate_limit_delay>>

PagingNext ==
    \/ FetchPage
    \/ FetchPageRaises

\* A page request returns or raises: the request has a timeout and its
\* retries are bounded.
SpecPaging == PagingInit /\ [][PagingNext]_vars /\ WF_vars(PagingNext)

\* =================================================================== claims
ShutdownPcs == {"flush", "close_store", "close_source", "done"}

\* D_abs >= abs_threshold or D_pct >= pct_threshold, stated on the two prices:
\* D_abs = |curr - prev|; D_pct = D_abs / prev for prev # 0; for prev = 0,
\* D_pct is +infinity when D_abs > 0 and 0 otherwise.
ThresholdPredicate(prev, curr, th) ==
    LET d_abs == IF curr >= prev THEN curr - prev ELSE prev - curr
    IN  \/ d_abs >= th.abs_threshold
        \/ prev # 0 /\ d_abs * 100 >= th.pct_threshold * prev
        \/ prev = 0 /\ d_abs > 0
        \/ prev = 0 /\ d_abs = 0 /\ 0 >= th.pct_threshold

\* D_abs < abs_threshold and D_pct < pct_threshold, stated on the two prices.
BothBelow(prev, curr, th) ==
    LET d_abs == IF curr >= prev THEN curr - prev ELSE prev - curr
    IN  /\ d_abs < th.abs_threshold
        /\ \/ prev # 0 /\ d_abs * 100 < th.pct_threshold * prev
           \/ prev = 0 /\ d_abs = 0 /\ 0 < th.pct_threshold

\* C1 (No-first-event): the first snapshot evaluated for a market yields no
\* change and no event and only records last_yes_price; the second snapshot
\* evaluated for it yields a change if and only if the threshold predicate
\* holds between the first and the second yes_price, and an event only then.
C1_NoFirstEvent ==
    last_eval # None =>
        LET e == last_eval[1]
        IN  /\ e.nth = 0 =>
                /\ e.hist_prev = None
                /\ e.change = None /\ e.event = None /\ e.record = None
                /\ states[e.market_id] =
                       Some([last_yes_price |-> Some(e.snapshot.yes_price),
                             last_event_yes_price |-> None,
                             last_event_at |-> None])
            /\ e.nth = 1 =>
                /\ e.hist_prev # None
                /\ e.change # None <=>
                       ThresholdPredicate(e.hist_prev[1], e.snapshot.yes_price,
                                          _resolve_thresholds(e.sub))
                /\ e.event # None => e.change # None
                /\ e.record # None => e.event # None

\* C1 witness: the second snapshot of a market fired and its event reached
\* the producer.
C1_Witness ==
    /\ last_eval # None
    /\ last_eval[1].nth = 1
    /\ last_eval[1].change # None
    /\ last_eval[1].record # None

\* C2 (Threshold predicate): with a recorded previous price the engine
\* returns a change iff D_abs >= abs_threshold or D_pct >= pct_threshold
\* (both inclusive, any move off a zero baseline fires), the change carries
\* D_abs and D_pct, and a suppressed evaluation has both strictly below.
C2_ThresholdPredicate ==
    last_eval # None /\ last_eval[1].hist_prev # None =>
        LET e == last_eval[1]
            prev == e.hist_prev[1]
            curr == e.snapshot.yes_price
            th == _resolve_thresholds(e.sub)
        IN  /\ e.change # None <=> ThresholdPredicate(prev, curr, th)
            /\ e.change = None => BothBelow(prev, curr, th)
            /\ prev = 0 /\ curr # 0 => e.change # None
            /\ e.change # None =>
                /\ e.change[1].magnitude = (IF curr >= prev THEN curr - prev ELSE prev - curr)
                /\ e.change[1].magnitude_pct =
                       (IF prev = 0 THEN <<1, 0>> ELSE <<e.change[1].magnitude, prev>>)

\* C2 witness: a move that equals the absolute threshold and stays below the
\* relative one fired.
C2_Witness ==
    /\ last_eval # None
    /\ last_eval[1].change # None
    /\ last_eval[1].thresholds # None
    /\ last_eval[1].change[1].magnitude = last_eval[1].thresholds[1].abs_threshold
    /\ last_eval[1].hist_prev # None
    /\ last_eval[1].hist_prev[1] # 0
    /\ last_eval[1].change[1].magnitude * 100 <
           last_eval[1].thresholds[1].pct_threshold * last_eval[1].hist_prev[1]

\* C3 (Direction correctness): an emitted change has direction "yes" exactly
\* when yes_price is above the previous last_yes_price and "no" exactly when
\* it is below; an evaluation with yes_price equal to it emits nothing.
C3_Direction ==
    last_eval # None /\ last_eval[1].hist_prev # None =>
        LET e == last_eval[1]
            prev == e.hist_prev[1]
            curr == e.snapshot.yes_price
        IN  /\ e.change # None =>
                /\ e.change[1].direction \in {"yes", "no"}
                /\ e.change[1].direction = "yes" <=> curr > prev
                /\ e.change[1].direction = "no" <=> curr < prev
            /\ curr = prev => e.change = None

\* C3 witness: a downward move fired under a subscription whose thresholds
\* are both set to 0.0.
C3_Witness ==
    /\ last_eval # None
    /\ last_eval[1].change # None
    /\ last_eval[1].change[1].direction = "no"
    /\ last_eval[1].sub.conviction_threshold = Some(0)
    /\ last_eval[1].sub.conviction_threshold_pct = Some(0)

\* C4 (State advance): after every call of the engine, first observation,
\* suppressed or firing, the state's last_yes_price is the yes_price of the
\* snapshot just evaluated.
C4_StateAdvance ==
    last_eval # None =>
        LET e == last_eval[1]
        IN  /\ states[e.market_id] # None
            /\ states[e.market_id][1].last_yes_price = Some(e.snapshot.yes_price)

\* C4 witness: a suppressed evaluation moved last_yes_price to a new price.
C4_Witness ==
    /\ last_eval # None
    /\ last_eval[1].outcome = "suppressed"
    /\ last_eval[1].hist_prev # Some(last_eval[1].snapshot.yes_price)

\* C5 (Threshold precedence): the thresholds the engine uses are the
\* subscription's conviction_threshold and conviction_threshold_pct whenever
\* they are set, 0.0 included, and the defaults 0.10 and 0.20 only when unset.
C5_ThresholdPrecedence ==
    last_eval # None /\ last_eval[1].thresholds # None =>
        LET e == last_eval[1]
            th == e.thresholds[1]
        IN  /\ th.abs_threshold =
                   (IF e.sub.conviction_threshold # None
                    THEN e.sub.conviction_threshold[1] ELSE 10)
            /\ th.pct_threshold =
                   (IF e.sub.conviction_threshold_pct # None
                    THEN e.sub.conviction_threshold_pct[1] ELSE 20)

\* C6 (Event has a prior): an event handed to the publisher comes from an
\* evaluation of a market whose last_yes_price was already recorded; its
\* previous_yes_price is the yes_price of the snapshot of the preceding
\* evaluation of that market, and its yes_price, market_id and timestamp are
\* those of the current snapshot.
C6_EventHasPrior ==
    last_eval # None /\ last_eval[1].event # None =>
        LET e == last_eval[1]
            ev == e.event[1]
        IN  /\ e.nth >= 1
            /\ e.hist_prev # None
            /\ states_at_start[e.market_id] # None \/
                   \E i \in 1..(Len(cycle.outcomes) - 1) :
                       cycle.outcomes[i].market_id = e.market_id
            /\ ev.previous_yes_price # None
            /\ ev.previous_yes_price = e.hist_prev
            /\ ev.yes_price = e.snapshot.yes_price
            /\ ev.market_id = e.snapshot.market_id
            /\ ev.market_id = e.sub.market_id
            /\ ev.timestamp = e.snapshot.fetched_at
            /\ ev.timestamp[1] = "fetch" /\ ev.timestamp[2] = tick

\* C6 witness: an event was handed to the publisher whose previous price
\* differs from its price.
C6_Witness ==
    /\ last_eval # None
    /\ last_eval[1].event # None
    /\ last_eval[1].event[1].previous_yes_price # Some(last_eval[1].event[1].yes_price)

\* The store read of the cycle in flight raised or gave no active subscription.
QuietStore ==
    cycle.store = "raised" \/ (cycle.store = "ok" /\ cycle.active = {})

C7_Inv ==
    QuietStore =>
        /\ cycle.fetch_calls = 0 /\ cycle.fetch = "none"
        /\ cycle.outcomes = <<>> /\ cycle.published = <<>>
        /\ tasks = <<>> /\ last_eval = None
        /\ states = states_at_start
        /\ pc = "sleep" \/ (pc \in ShutdownPcs /\ stop_requested)

C7_Step ==
    QuietStore /\ pc = "sleep" /\ ~stop_requested /\ pc' # pc =>
        \/ pc' = "load" /\ tick' = tick + 1
        \/ pc' = "flush" /\ shutdown'.why = "cancelled"

\* C7 (Store failure or empty set): in a cycle whose store read raises or
\* gives no subscription with ref_count > 0 there is no fetch, no evaluation,
\* no change of conviction state and no event; the cycle goes to the sleep,
\* and unless a stop was requested the next cycle starts after it.
C7_QuietStoreCycle == []C7_Inv /\ [][C7_Step]_vars

\* C7 witness: a cycle whose store read raised is asleep while a market
\* holds conviction state from an earlier cycle.
C7_Witness ==
    /\ cycle.store = "raised"
    /\ pc = "sleep"
    /\ \E m \in Markets : states[m] # None

C8_Inv ==
    cycle.fetch = "raised" =>
        /\ cycle.fetch_calls = 1
        /\ cycle.snapshots = {} /\ cycle.matched = 0
        /\ cycle.outcomes = <<>> /\ cycle.published = <<>>
        /\ tasks = <<>> /\ last_eval = None
        /\ states = states_at_start
        /\ pc = "sleep" \/ (pc \in ShutdownPcs /\ stop_requested)

C8_Step ==
    cycle.fetch = "raised" /\ pc = "sleep" /\ ~stop_requested /\ pc' # pc =>
        \/ pc' = "load" /\ tick' = tick + 1
        \/ pc' = "flush" /\ shutdown'.why = "cancelled"

\* C8 (Fetch failure): when the bulk fetch fails, on the first page or after
\* earlier pages succeeded, the cycle behaves as with an empty snapshot map:
\* no evaluation, no change of conviction state, no event; the cycle goes to
\* the sleep and unless a stop was requested the next cycle starts after it.
C8_FailedFetchCycle == []C8_Inv /\ [][C8_Step]_vars

\* C8 witness: the fetch failed after a page that held an active market had
\* been received, and that market holds conviction state.
C8_Witness ==
    /\ cycle.fetch = "raised"
    /\ cycle.pages_ok >= 1
    /\ \E m \in cycle.active : states[m] # None

\* C9 (Join skips unmatched): an active subscription whose market is not in
\* the snapshot map gets no task, no conviction state is created or changed
\* for it and nothing is published for it in the cycle, and the fetch is
\* issued exactly once in a cycle with active subscriptions.
C9_UnmatchedSkipped ==
    /\ cycle.active # {} => cycle.fetch_calls = 1
    /\ cycle.fetch # "none" =>
           \A m \in cycle.active \ cycle.snapshots :
               /\ states[m] = states_at_start[m]
               /\ \A i \in 1..Len(tasks) : tasks[i].sub.market_id # m
               /\ \A i \in 1..Len(cycle.outcomes) : cycle.outcomes[i].market_id # m
               /\ \A i \in 1..Len(cycle.published) : cycle.published[i].key # m

\* C9 witness: a cycle ended in which one active market had no snapshot and
\* another active market was matched and published.
C9_Witness ==
    /\ pc = "sleep"
    /\ cycle.fetch = "ok"
    /\ cycle.active \ cycle.snapshots # {}
    /\ cycle.published # <<>>

NumOutcomes(kind) ==
    Cardinality({i \in 1..Len(cycle.outcomes) : cycle.outcomes[i].outcome = kind})

C10_Inv ==
    /\ cycle.fetch = "ok" => Len(cycle.outcomes) + Len(tasks) = cycle.matched
    /\ pc # "gather" => tasks = <<>>
    /\ pc = "gather" => tasks # <<>>
    /\ NumOutcomes("published") = Len(cycle.published)
    /\ pc \in ShutdownPcs => (shutdown.why = "stop" /\ stop_requested)
                                 \/ shutdown.why = "cancelled"

C10_Step ==
    pc = "gather" /\ Len(cycle'.outcomes) > Len(cycle.outcomes) =>
        /\ tasks' = Tail(tasks)
        /\ pc' = IF tasks' = <<>> THEN "sleep" ELSE "gather"

\* C10 (Fan-out isolation): a failure while building or publishing the event
\* of one matched market leaves the other tasks of the cycle in the gather:
\* every matched market of the cycle is evaluated, every event that is built
\* and produced without error is published, and the loop goes on to its sleep.
C10_FailureIsolated == []C10_Inv /\ [][C10_Step]_vars

\* C10 witness: in one cycle the task of one market failed to publish and a
\* later task of another market published its event.
C10_Witness ==
    \E i, j \in 1..Len(cycle.outcomes) :
        /\ i < j
        /\ cycle.outcomes[i].outcome = "failed"
        /\ cycle.outcomes[j].outcome = "published"
        /\ cycle.outcomes[i].market_id # cycle.outcomes[j].market_id

\* The cycle in flight is complete whenever run() is between cycles or past
\* its loop on a stop: every matched market has been evaluated.
C11_Inv ==
    /\ pc = "sleep" =>
           /\ tasks = <<>>
           /\ cycle.fetch = "ok" => Len(cycle.outcomes) = cycle.matched
    /\ shutdown.why = "stop" => stop_requested /\ tasks = <<>>

C11_Step ==
    /\ stop_requested => stop_requested'
    /\ stop_requested => tick' = tick
    /\ stop_requested /\ pc = "gather" /\ shutdown'.why # "cancelled" =>
           /\ tasks' = Tail(tasks)
           /\ Len(cycle'.outcomes) = Len(cycle.outcomes) + 1
           /\ outq' = outq + (Len(cycle'.published) - Len(cycle.published))
    /\ shutdown.why = "none" /\ shutdown'.why = "stop" =>
           stop_requested /\ pc \in {"loop", "sleep"} /\ tasks = <<>>

ShutdownCalls == <<"flush", "close_store", "close_source">>

\* C12 (Shutdown order): whenever run() has ended, by a stop or by a
\* cancellation, its finally clause has flushed the publisher once, then
\* closed the subscription store once, then closed the data source once; at
\* every moment the calls made so far are the first ones of that order, and
\* nothing is handed to the producer once the finally clause is entered.
C12_ShutdownOrder ==
    /\ \E n \in 0..3 : shutdown.calls = SubSeq(ShutdownCalls, 1, n)
    /\ pc \in ShutdownPcs => tasks = <<>> /\ shutdown.why \in {"stop", "cancelled"}
    /\ pc = "done" => shutdown.calls = ShutdownCalls

\* C13 (Bounded flush): when the finally clause has called flush with
\* records in the producer's queue that the log did not acknowledge, flush
\* has come back, the records are lost, and run() has gone on to close the
\* store and the data source before it ended.
C13_FlushBounded ==
    pc = "done" /\ shutdown.lost > 0 =>
        /\ ~shutdown.raised
        /\ outq = 0
        /\ SubSeq(shutdown.calls, 2, Len(shutdown.calls)) = <<"close_store", "close_source">>

\* The place of a record of the log among the records handed to produce().
ProducedIndex(r) == CHOOSE n \in 1..Len(produced) : LogRecord(produced[n]) = r

\* C14 (Per-market order): every record of the log was handed to the
\* producer, and two records with the same key lie in their partition in the
\* order in which the orchestrator handed them to the producer; records of
\* the same key lie in the same partition.
C14_PerKeyOrder ==
    \A tp \in Topics, p \in Partitions :
        LET L == log[tp][p]
        IN  /\ \A i \in 1..Len(L) :
                   /\ \E n \in 1..Len(produced) : LogRecord(produced[n]) = L[i]
                   /\ PartitionOf(L[i].key) = p
            /\ \A i, j \in 1..Len(L) :
                   i < j /\ L[i].key = L[j].key =>
                       ProducedIndex(L[i]) < ProducedIndex(L[j])

\* C14 witness: two events of one market were produced and both are in the
\* log, in one partition.
C14_Witness ==
    /\ Len(produced) >= 2
    /\ inflight = <<>>
    /\ \E p \in Partitions :
          LET L == log[topic(kafka_config)][p]
          IN  Len(L) >= 2 /\ L[1].key = L[2].key

\* The fields of an event other than its two datetimes.
PlainFields == {"event_id", "market_id", "yes_price", "source", "conviction_direction",
                "conviction_magnitude", "conviction_magnitude_pct", "previous_yes_price"}

\* C15 (Record shape): the key of every record handed to the producer is the
\* market_id inside its value; the value of the record just handed over
\* carries published_at as the text of the time of publish_event, the
\* timestamp of the event as text, and every other field as in the event the
\* orchestrator built, whose own published_at is unset.
C15_RecordShape ==
    /\ \A n \in 1..Len(produced) :
          /\ produced[n].key = produced[n].value.market_id
          /\ produced[n].value.published_at # None
    /\ last_eval # None /\ last_eval[1].record # None =>
          LET r == last_eval[1].record[1]
              e == last_eval[1].event[1]
          IN  /\ r.key = e.market_id
              /\ r.key = r.value.market_id
              /\ e.published_at = None
              /\ r.value.published_at = <<"str", Now("publish")>>
              /\ r.value.timestamp = <<"str", e.timestamp>>
              /\ e.timestamp = Now("fetch")
              /\ DOMAIN r.value = DOMAIN e
              /\ \A f \in PlainFields : r.value[f] = e[f]

\* C15 witness: a record has just been handed to the producer.
C15_Witness ==
    /\ pc = "publish"
    /\ last_eval # None
    /\ last_eval[1].record # None
    /\ produced # <<>>
    /\ produced[Len(produced)] = last_eval[1].record[1]

\* C16 (Same topic): the topic the consumer subscribes to is the topic the
\* publisher produces to, whatever the prefix, so every record delivered to
\* the log lies in the topic the consumer polls.
C16_SameTopic ==
    /\ subscribed_topic(kafka_config) = topic(kafka_config)
    /\ \A tp \in Topics, p \in Partitions :
          \A i \in 1..Len(log[tp][p]) :
              /\ i =< Len(SubscribedLog[p])
              /\ SubscribedLog[p][i] = log[tp][p][i]

\* A value poll cannot turn into an object: text that is not JSON, bytes
\* that are not UTF-8, JSON text of something that is not an object.
Undecodable(msg) == msg.kind \in {"bad_json", "bad_utf8", "array"}

\* The iteration just made passed a record that does not decode.
JustSkipped ==
    /\ last_poll # None
    /\ last_poll[1].msg # None
    /\ Undecodable(last_poll[1].msg[1])

C17_Inv ==
    /\ last_poll # None => last_poll[1].handed \in {0, 1}
    /\ pc = "injestor" /\ JustSkipped =>
          /\ last_poll[1].handed = 0
          /\ (\E p \in Partitions : position[p] < Len(SubscribedLog[p])) =>
                 ENABLED (ConsumeSkip \/ ConsumeProject)

C17_Step ==
    /\ archive' # archive =>
          /\ \E p \in Partitions : position'[p] = position[p] + 1
          /\ last_poll'[1].handed = 1
    /\ \A p \in Partitions :
          position'[p] > position[p] =>
              LET msg == SubscribedLog[p][position[p] + 1]
              IN  /\ position' = [position EXCEPT ![p] = @ + 1]
                  /\ last_poll' # None /\ last_poll'[1].msg = Some(msg)
                  /\ last_poll'[1].handed =< 1
                  /\ pc' = pc
                  /\ Undecodable(msg) =>
                         /\ archive' = archive
                         /\ last_poll'[1].handed = 0
                         /\ last_poll'[1].writes = 0

\* C17 (One event per poll, bad records skipped): an iteration of the loop
\* takes one message and hands at most one event to upsert_event; a message
\* whose value is not JSON, not UTF-8 or not an object writes nothing to the
\* archive, the position moves past it, the loop goes on, and when a
\* record of the topic is unread after that an iteration that consumes one
\* can run.
C17_SkipAndGoOn == []C17_Inv /\ [][C17_Step]_vars

\* C17 witness: a record that does not decode has been passed and the
\* record after it in the partition has been projected.
C17_Witness ==
    /\ last_poll # None
    /\ last_poll[1].handed = 1
    /\ last_poll[1].writes = 2
    /\ LET p == last_poll[1].partition
       IN  /\ position[p] = 2
           /\ Undecodable(SubscribedLog[p][1])
           /\ last_poll[1].msg = Some(SubscribedLog[p][2])
    /\ Cardinality(DOMAIN archive) = 2

\* The document is the event body plus the type given: the type field holds
\* the type given, every other field of the body is in the document as it
\* is in the body, and the document has no further field.
BodyPlusType(doc, event, type) ==
    /\ DOMAIN doc = DOMAIN event \cup {"type"}
    /\ doc["type"] = type
    /\ \A f \in DOMAIN event \ {"type"} : doc[f] = event[f]

\* The iteration just made consumed a message of partition p and both
\* writes of upsert_event returned.
ProjectedAt(p) ==
    /\ position'[p] = position[p] + 1
    /\ last_poll' # None
    /\ last_poll'[1].handed = 1
    /\ last_poll'[1].writes = 2

C18_Step ==
    \A p \in Partitions :
        ProjectedAt(p) =>
            LET event == EventOf(SubscribedLog[p][position[p] + 1])[1]
                mk == market_key(event)
                ek == event_key(event)
            IN  /\ {mk, ek} \subseteq DOMAIN archive'
                /\ BodyPlusType(archive'[mk], event, "market_latest")
                /\ BodyPlusType(archive'[ek], event, "conviction_event")
                /\ DOMAIN archive' = DOMAIN archive \cup {mk, ek}
                /\ \A k \in DOMAIN archive \ {mk, ek} : archive'[k] = archive[k]

\* C18 (Two documents per event): after an iteration in which both writes
\* returned, the archive holds under the market key of the event its body
\* with type "market_latest" and under the event key its body with type
\* "conviction_event", whatever fields the body carries, and every other
\* key of the archive is as it was.
C18_TwoDocuments == [][C18_Step]_vars

\* C19 (Idempotent projection): an iteration that projects the record the
\* iteration before it projected (delivered again after a restart, or lying
\* twice in the log) leaves every document of the archive as it was, and
\* upsert_event applied to its own result for the same event gives that
\* result.
C19_Step ==
    \A p \in Partitions :
        /\ ProjectedAt(p)
        /\ last_poll # None
        /\ last_poll[1].writes = 2
        /\ last_poll[1].msg = Some(SubscribedLog[p][position[p] + 1])
        => /\ archive' = archive
           /\ upsert_event(archive', EventOf(SubscribedLog[p][position[p] + 1])[1]) = archive'

C19_Idempotent == [][C19_Step]_vars

\* C19 witness: the record projected last was read again after a restart
\* and projected a second time: the position is where it was after the
\* first projection, nothing was committed, and the archive holds the two
\* documents of the event.
C19_Witness ==
    /\ last_poll # None
    /\ last_poll[1].again
    /\ last_poll[1].writes = 2
    /\ LET p == last_poll[1].partition
       IN  /\ position[p] = 1
           /\ committed[p] = 0
           /\ last_poll[1].offset = 0
    /\ Cardinality(DOMAIN archive) = 2

\* The document holds the body: every field of the body is in the document
\* with the value it has in the body.
HoldsBody(doc, event) ==
    /\ DOMAIN event \subseteq DOMAIN doc
    /\ \A f \in DOMAIN event : doc[f] = event[f]

\* The bodies of the objects on the subscribed topic.
LogBodies ==
    UNION {{SubscribedLog[p][i].body :
                i \in {n \in 1..Len(SubscribedLog[p]) : SubscribedLog[p][n].kind = "object"}} :
           p \in Partitions}

C20_Inv ==
    \A k \in DOMAIN archive :
        /\ k[1] \in {"market::", "event::"}
        /\ k[1] = "market::" => DictGet(archive[k], "market_id", "unknown") = k[2]
        /\ k[1] = "event::" => DictGet(archive[k], "event_id", <<"unknown">>) = k[2]
        /\ \E b \in LogBodies :
              /\ HoldsBody(archive[k], b)
              /\ k \in {market_key(b), event_key(b)}

C20_Step ==
    /\ archive' # archive => \E p \in Partitions : position'[p] = position[p] + 1
    /\ \A p \in Partitions :
          position'[p] = position[p] + 1 =>
              LET ev == EventOf(SubscribedLog[p][position[p] + 1])
              IN  /\ ProjectedAt(p) =>
                         /\ market_key(ev[1]) \in DOMAIN archive'
                         /\ event_key(ev[1]) \in DOMAIN archive'
                         /\ HoldsBody(archive'[market_key(ev[1])], ev[1])
                         /\ HoldsBody(archive'[event_key(ev[1])], ev[1])
                  /\ \A k \in DOMAIN archive :
                         (ev = None \/ k \notin {market_key(ev[1]), event_key(ev[1])}) =>
                             k \in DOMAIN archive' /\ archive'[k] = archive[k]

\* C20 (Latest per market, one document per event): a document of the
\* archive holds the body of an object of the topic whose market_id, or
\* event_id, is the one in its key; after a projection in which both writes
\* returned the market document of the event and the event document of the
\* event hold its body; and an iteration changes no document of another
\* market or of another event_id, so the market document holds the body of
\* the event of that market projected last.
C20_LatestAndHistory == []C20_Inv /\ [][C20_Step]_vars

\* C20 witness: two events of one market have been projected one after the
\* other: the archive holds the document of each event and the market
\* document holds the second.
C20_Witness ==
    /\ last_poll # None
    /\ last_poll[1].writes = 2
    /\ ~last_poll[1].again
    /\ last_poll[1].offset = 1
    /\ LET p == last_poll[1].partition
           first == SubscribedLog[p][1].body
           second == SubscribedLog[p][2].body
       IN  /\ position[p] = 2
           /\ SubscribedLog[p][1].kind = "object"
           /\ DictGet(first, "market_id", "unknown") = "m1"
           /\ DictGet(second, "market_id", "unknown") = "m1"
           /\ event_key(first) # event_key(second)
           /\ DOMAIN archive = {market_key(second), event_key(first), event_key(second)}
           /\ HoldsBody(archive[market_key(second)], second)
           /\ HoldsBody(archive[event_key(first)], first)

\* An iteration that consumed a message of partition p and handed its
\* event to upsert_event.
HandedAt(p) ==
    /\ position'[p] = position[p] + 1
    /\ last_poll' # None
    /\ last_poll'[1].handed = 1

C21_Step ==
    \A p \in Partitions :
        HandedAt(p) /\ last_poll'[1].writes < 2 =>
            LET event == EventOf(SubscribedLog[p][position[p] + 1])[1]
            IN  /\ last_poll'[1].attempts = 2
                /\ last_poll'[1].logged = "persist"
                /\ position' = [position EXCEPT ![p] = @ + 1]
                /\ pc' = pc
                /\ last_poll'[1].writes = 1 =>
                       /\ market_key(event) \in DOMAIN archive'
                       /\ HoldsBody(archive'[market_key(event)], event)

\* C21 (Independent writes): in an iteration whose upsert_event did not
\* complete, both collection.upsert calls were still made (the history
\* write is attempted when the latest write failed, and the latest document
\* stays when the history write failed), the failure was logged, the
\* position moved past the record and the loop goes on.
C21_IndependentWrites == [][C21_Step]_vars

\* Every record of the subscribed topic has been polled and handled.
AllConsumed ==
    /\ pc = "consume"
    /\ \A p \in Partitions : position[p] = Len(SubscribedLog[p])

ConsumerClosingPcs == {"close_consumer", "close_archive", "stopped"}

C22_Inv ==
    /\ archive = EmptyArchive
    /\ pc \in ConsumerClosingPcs => stop_requested
    /\ pc = "consume" /\ last_poll # None /\ last_poll[1].handed = 1 =>
           last_poll[1].writes = 0 /\ last_poll[1].logged = "persist"

C22_Step ==
    /\ \A p \in Partitions : position'[p] \in {position[p], position[p] + 1}
    /\ position' # position =>
           /\ ~stop_requested
           /\ pc = "consume" /\ pc' = "handle"
           /\ \E p \in Partitions :
                 /\ position' = [position EXCEPT ![p] = @ + 1]
                 /\ last_poll'[1].msg = Some(SubscribedLog[p][position'[p]])
    /\ pc = "handle" =>
           /\ pc' \in {"handle", "consume"}
           /\ pc' = "consume" /\ EventOf(last_poll[1].msg[1]) # None =>
                  last_poll'[1].handed = 1 /\ last_poll'[1].logged = "persist"

\* C22 (Dead archive): when every collection.upsert call raises, nothing is
\* persisted, run() leaves its loop only on a stop, the position of a
\* partition moves one record at a time and never back, each event handed to
\* upsert_event has its failure logged, and while no stop is requested every
\* record of the topic comes to be polled and handled.
C22_DeadArchive ==
    /\ []C22_Inv
    /\ [][C22_Step]_vars
    /\ (~AllConsumed ~> (AllConsumed \/ stop_requested))

\* C22 witness: with no stop requested, two events and a record that is not
\* JSON have all been consumed, the last event's failure is logged and the
\* archive is empty.
C22_Witness ==
    /\ AllConsumed
    /\ ~stop_requested
    /\ position[0] >= 2
    /\ position[2] = 1
    /\ last_poll # None
    /\ last_poll[1].handed = 1
    /\ last_poll[1].attempts = 1
    /\ last_poll[1].logged = "persist"
    /\ archive = EmptyArchive

ConsumerCloseCalls == <<"close_consumer", "close_archive">>

C23_Inv ==
    /\ \E n \in 0..2 : shutdown.calls = SubSeq(ConsumerCloseCalls, 1, n)
    /\ pc \in ConsumerClosingPcs => stop_requested /\ shutdown.why = "stop"
    /\ pc = "close_consumer" => shutdown.calls = <<>>
    /\ pc = "close_archive" => shutdown.calls = <<"close_consumer">>
    /\ pc = "stopped" => shutdown.calls = ConsumerCloseCalls

C23_Step ==
    /\ stop_requested => stop_requested' /\ position' = position
    /\ stop_requested /\ pc = "handle" /\ pc' # pc =>
           /\ pc' = "consume"
           /\ EventOf(last_poll[1].msg[1]) # None =>
                  /\ last_poll'[1].handed = 1
                  /\ last_poll'[1].attempts >= 1
                  /\ archive' = UpsertWrites(archive, EventOf(last_poll[1].msg[1])[1],
                                             last_poll'[1].writes)
    /\ pc = "consume" /\ pc' = "close_consumer" => stop_requested

OnlyInactive == cycle.inactive \ cycle.active

C24_Inv ==
    /\ \A i \in 1..Len(active_subs) : active_subs[i].ref_count > 0
    /\ \A i \in 1..Len(tasks) :
          tasks[i].sub.ref_count > 0 /\ tasks[i].sub.market_id \in cycle.active
    /\ \A i \in 1..Len(cycle.outcomes) : cycle.outcomes[i].market_id \in cycle.active
    /\ \A i \in 1..Len(cycle.published) : cycle.published[i].key \in cycle.active
    /\ last_eval # None =>
          last_eval[1].sub.ref_count > 0 /\ last_eval[1].market_id \in cycle.active
    /\ \A m \in OnlyInactive : states[m] = states_at_start[m]
    /\ \A m \in Markets : states[m] # None => eval_count[m] > 0

C24_Step ==
    \A m \in Markets :
        states'[m] # states[m] =>
            /\ tasks # <<>>
            /\ Head(tasks).sub.market_id = m
            /\ Head(tasks).sub.ref_count > 0
            /\ m \in cycle.active

\* C24 (Only active subscriptions are evaluated): the subscriptions kept for
\* the cycle, the tasks joined, every evaluation, every outcome and every
\* record published are of a subscription read in this cycle with ref_count
\* above zero; conviction state changes only by the evaluation of such a
\* subscription; and a market the store returned only with ref_count zero
\* or negative keeps the state it had when the cycle started.
C24_OnlyActive == []C24_Inv /\ [][C24_Step]_vars

\* C24 witness: a cycle ended in which the store returned a market only with
\* a ref_count that is not positive, the page held a price for it, it has no
\* conviction state, and an event of another market was published.
C24_Witness ==
    /\ pc = "sleep"
    /\ cycle.fetch = "ok"
    /\ cycle.published # <<>>
    /\ \E m \in OnlyInactive :
          /\ m \in cycle.snapshots
          /\ states[m] = None

\* The calls of an operation whose update has been applied to a document.
Applied(op) == Cardinality({c \in Callers : callers[c].op = op /\ callers[c].pc = "done"})

C25_Inv ==
    pc = "store" /\ collection_at_start # <<>> =>
        /\ Len(collection) = 1
        /\ collection[1].ref_count =
               collection_at_start[1].ref_count + Applied("subscribe") - Applied("unsubscribe")
        /\ collection[1].created_at = collection_at_start[1].created_at
        /\ \A c \in Callers : callers[c].pc \in {"call", "update", "done"}

C25_Step ==
    /\ \A c \in Callers :
          callers[c].pc = "update" /\ callers'[c].pc = "done" =>
              /\ collection'[1].updated_at = callers[c].now[1]
              /\ collection'[1].updated_at # collection[1].updated_at
              /\ collection'[1].created_at = collection[1].created_at
              /\ collection'[1].ref_count =
                     collection[1].ref_count + (IF callers[c].op = "subscribe" THEN 1 ELSE -1)
    /\ \A c \in Callers :
          callers'[c].pc = "inserted" /\ callers[c].pc # "inserted" =>
              /\ callers[c].op = "subscribe"
              /\ collection' = Append(collection,
                                      StoreDoc(1, callers[c].now[1], callers[c].now[1]))
    /\ collection' # collection =>
          \E c \in Callers : callers'[c].pc \in {"done", "inserted"} /\ callers[c].pc # callers'[c].pc
    /\ collection = <<>> /\ collection' # <<>> => collection'[1].ref_count = 1

\* C25 (Atomic counting): on a market whose document exists, whatever the
\* interleaving of the calls, ref_count is its first value plus the
\* subscribes applied minus the unsubscribes applied, with no lower bound,
\* created_at is as inserted and every call applied sets updated_at to its
\* own `now`; a subscribe that finds no document inserts one with ref_count
\* 1, created_at and updated_at its `now`; nothing else changes a document.
C25_AtomicCounting == []C25_Inv /\ [][C25_Step]_vars

\* C25 witness: two unsubscribes ran on a document with ref_count 0, the one
\* that read the clock first was applied last, and the count is -2.
C25_Witness ==
    /\ pc = "store"
    /\ collection_at_start # <<>>
    /\ collection_at_start[1].ref_count = 0
    /\ \A c \in {1, 2} : callers[c].pc = "done" /\ callers[c].op = "unsubscribe"
    /\ collection[1].ref_count = -2
    /\ collection[1].updated_at = <<"t", 1>>

\* A worker inside or past its _request_with_retries call.
Calling(w) == workers[w].op = "call"

Retryable == {"5xx"} \cup TransportErrors

\* The exception the answer r of attempt n stands for.
FailureOf(r, n) ==
    IF r \in StatusClasses THEN <<"PolymarketApiError", r, n>> ELSE <<r, n>>

C26_Inv ==
    \A w \in Workers :
       Calling(w) =>
          LET wk == workers[w]
              done == wk.pc \in {"returned", "raised"}
          IN  /\ wk.sent <= 3
              /\ (wk.response = Some("2xx")) <=> (wk.pc = "returned")
              /\ wk.response = Some("4xx") =>
                    /\ wk.pc = "raised"
                    /\ wk.last_exc = Some(<<"PolymarketApiError", "4xx", wk.sent>>)
              /\ (wk.response # None /\ wk.response[1] \in Retryable) =>
                    /\ wk.last_exc = Some(FailureOf(wk.response[1], wk.sent))
                    /\ (wk.pc = "raised") <=> (wk.sent = 3)
                    /\ wk.sent < 3 => wk.pc \in {"backoff", "limit", "sleep", "send"}
              /\ wk.slept = IF done THEN wk.sent - 1 ELSE wk.sent
              /\ wk.sent = IF done \/ wk.pc = "backoff" THEN wk.attempt
                           ELSE wk.attempt - 1

C26_Step ==
    \A w \in Workers :
       /\ workers[w].pc \in {"returned", "raised"} => workers'[w] = workers[w]
       /\ workers'[w].sent \in {workers[w].sent, workers[w].sent + 1}
       /\ (workers[w].sent = 1 /\ workers[w].response = Some("4xx")) =>
             workers'[w].sent = 1
       /\ workers'[w].slept # workers[w].slept =>
             /\ workers'[w].sent = workers[w].sent + 1
             /\ workers'[w].pc = "backoff"

\* C26: one _request_with_retries call makes at most 3 requests; it returns
\* at the first 2xx response; a 4xx response raises PolymarketApiError at
\* once, so after exactly one request when it is the first answer; a
\* timeout, a connection error or a 5xx response is retried, and the third
\* such failure is the exception raised; a backoff sleep is started after
\* every failed attempt but the last, and at no other place.
C26_Retries == []C26_Inv /\ [][C26_Step]_vars

\* C26 witness: a call has failed three times, the last time with a timeout
\* after a 5xx response, slept twice and raised the timeout, and the other
\* call raised on a 4xx answer to its only request.
C26_Witness ==
    \E w, v \in Workers :
       /\ workers[w].pc = "raised"
       /\ workers[w].sent = 3
       /\ workers[w].slept = 2
       /\ workers[w].last_exc = Some(<<"Timeout", 3>>)
       /\ workers[v].pc = "raised"
       /\ workers[v].sent = 1
       /\ workers[v].response = Some("4xx")

\* A request goes out in this step.
Sends(w) == workers'[w].sent = workers[w].sent + 1

\* The request of this step leaves at least the delay after the one before.
C27_Step ==
    \A w \in Workers :
       Sends(w) =>
          \/ last_request_time = 0
          \/ mono - last_request_time >= rate_limit_delay

\* C27: between any two requests made through one client, those of calls
\* running on different worker threads included, at least rate_limit_delay
\* elapses on the monotonic clock.
C27_MinimumSpacing == [][C27_Step]_vars

\* Item k of the response is an object that the parser turns into a
\* snapshot of market m.
ParsesTo(k, m) ==
    /\ parsing.all_items[k].type = "dict"
    /\ ParseGammaMarket(parsing.all_items[k]).kind = "snapshot"
    /\ ParseGammaMarket(parsing.all_items[k]).snapshot[1].market_id = m

\* C28: the parse loop of a bulk fetch is never left by an exception, and
\* when it returns, every well-formed record of a market is in the result
\* under its market_id with its two prices, unless a later record of the
\* same market replaced it.
C28_ParseIsolation ==
    /\ parsing # <<>> => parsing.pc # "aborted"
    /\ (parsing # <<>> /\ parsing.pc = "returned") =>
          \A k \in 1..Len(parsing.all_items) : \A m \in Markets :
             parsing.all_items[k] = Good(m) =>
                \/ parsing.result[m] =
                      Some([market_id |-> m, yes_price |-> 72, no_price |-> 28])
                \/ \E j \in (k + 1)..Len(parsing.all_items) : ParsesTo(j, m)

\* C28 witness: the fetch returned a response whose first item made the
\* parser raise and whose second item is a well-formed record of m1, which
\* is in the result.
C28_Witness ==
    /\ parsing # <<>>
    /\ parsing.pc = "returned"
    /\ Len(parsing.all_items) = 2
    /\ parsing.all_items[1].type = "dict"
    /\ ParseGammaMarket(parsing.all_items[1]).kind = "raise"
    /\ parsing.all_items[2] = Good("m1")
    /\ parsing.result["m1"] = Some([market_id |-> "m1", yes_price |-> 72, no_price |-> 28])

\* The parser has been applied to the first item of the response, an
\* object, and to nothing else.
ParsedFirst ==
    /\ parsing # <<>>
    /\ parsing.i = 2
    /\ parsing.all_items[1].type = "dict"

\* C29: parsing a record with an id and the outcomes Yes and No whose
\* outcomePrices is a string that is not valid JSON raises
\* PolymarketApiError; it returns neither a snapshot nor None.
C29_MalformedJsonRaises ==
    (ParsedFirst /\ parsing.all_items[1].market_id # None
                 /\ parsing.all_items[1].outcomes = Text(List(<<Str("Yes"), Str("No")>>))
                 /\ parsing.all_items[1].outcomePrices = NotJson) =>
       parsing.outcome = Raises("PolymarketApiError")

\* A side of the record has no price that is a number: in the packed format
\* no element carries the label with a numeric price, and in the tokenized
\* format no token does.
PackedHas(data, labels) ==
    /\ data.outcomes.form # "absent" /\ data.outcomes.valid
    /\ data.outcomePrices.form # "absent" /\ data.outcomePrices.valid
    /\ data.outcomes.v.t = "list" /\ data.outcomePrices.v.t = "list"
    /\ Len(data.outcomes.v.items) = 2 /\ Len(data.outcomePrices.v.items) = 2
    /\ \E i \in 1..2 :
          /\ Lower[data.outcomes.v.items[i].s] \in labels
          /\ data.outcomePrices.v.items[i].t = "num"
                \/ (data.outcomePrices.v.items[i].t = "str"
                      /\ data.outcomePrices.v.items[i].s \in {"0.72", "0.28"})

TokensHave(data, labels) ==
    /\ data.tokens.form # "absent"
    /\ \E i \in 1..Len(data.tokens.v.items) :
          LET token == data.tokens.v.items[i]
          IN  /\ token.outcome # None
              /\ Lower[token.outcome[1]] \in labels
              /\ token.price # None
              /\ token.price[1].t = "num"

Unpriced(data) ==
    \/ ~(PackedHas(data, {"yes", "long"}) \/ TokensHave(data, {"yes", "long"}))
    \/ ~(PackedHas(data, {"no", "short"}) \/ TokensHave(data, {"no", "short"}))

\* C30: a record whose YES price or NO price cannot be obtained as a number
\* (label absent, price absent or price not numeric, in either format)
\* yields no snapshot.
C30_NoSubstitutedPrice ==
    (ParsedFirst /\ Unpriced(parsing.all_items[1])) =>
       parsing.outcome.kind # "snapshot"

\* This step is a call of the engine.
EngineStep ==
    /\ last_eval' # None
    /\ <<states, observed, eval_count, last_eval>>' # <<states, observed, eval_count, last_eval>>

\* The state object the call of this step was handed.
StateBefore(market_id) ==
    IF states[market_id] = None THEN ConvictionState ELSE states[market_id][1]

\* The decision of the call of this step is the one the engine takes on the
\* same thresholds, price and last_yes_price with any other last event, and
\* a move below both thresholds emits nothing.
C31_Step ==
    EngineStep =>
       LET e == last_eval'[1]
           st == StateBefore(e.market_id)
       IN  /\ \A p \in {None, Some(0), Some(45), Some(100)} :
              \A at \in {None, Some(Now("detect"))} :
                 (detect_conviction_change(
                     e.sub, e.snapshot,
                     [st EXCEPT !.last_event_yes_price = p, !.last_event_at = at],
                     Now("detect")).change = None) <=> (e.change = None)
           /\ (st.last_yes_price # None
                  /\ BothBelow(st.last_yes_price[1], e.snapshot.yes_price,
                               _resolve_thresholds(e.sub))) => e.change = None

Ends(i) ==
    /\ i \in 1..Len(tasks) /\ i \in 1..Len(tasks')
    /\ tasks[i].pc # "done" /\ tasks'[i].pc = "done"

\* At every point where the event loop may change task, a task has not
\* started or is over, and it belongs to the cycle in flight; outside the
\* gather no task is left.
C32_Inv ==
    /\ \A i \in 1..Len(tasks) :
          /\ tasks[i].pc \in {"start", "done"}
          /\ tasks[i].tick = tick
    /\ pc \in {"loop", "sleep"} => tasks = <<>>

\* A task that ends in this step started in it, read the last_yes_price of
\* the state the step began with, and left the state the engine gives on
\* that reading; no other task moved.
C32_Step ==
    \A i \in 1..MaxSubs :
       Ends(i) =>
          LET t == tasks'[i]
              m == t.sub.market_id
              res == detect_conviction_change(t.sub, t.snapshot, StateBefore(m),
                                              Now("detect"))
          IN  /\ tasks[i].pc = "start"
              /\ t.previous_price = StateBefore(m).last_yes_price
              /\ t.change = res.change
              /\ states'[m] = Some(res.state)
              /\ \A j \in 1..Len(tasks) : j # i => tasks'[j] = tasks[j]
              /\ \A n \in Markets : n # m => states'[n] = states[n]

\* C32: in every order in which the tasks of a gather run, the read of
\* last_yes_price, the decision and the write of a task happen in one step
\* of the event loop, so the sequences of two tasks of one market never
\* interleave, and no task of a cycle is left when the next cycle starts.
C32_AtomicTasks == []C32_Inv /\ [][C32_Step]_vars

\* C32 witness: two tasks of market m1 are in the gather, the second of the
\* list has run and fired on the price the run began with, and the first
\* has not started.
C32_Witness ==
    /\ pc = "gather"
    /\ Len(tasks) = 2
    /\ tasks[1].sub.market_id = "m1" /\ tasks[2].sub.market_id = "m1"
    /\ tasks[1].pc = "start"
    /\ tasks[2].pc = "done"
    /\ tasks[2].outcome = "published"
    /\ states["m1"][1].last_yes_price = Some(tasks[2].snapshot.yes_price)

\* A market has a state exactly when it has been evaluated, and the state
\* holds the price of its last evaluation.
C33_Inv ==
    \A m \in Markets :
       /\ (states[m] = None) <=> (eval_count[m] = 0)
       /\ (states[m] = None) <=> (observed[m] = None)
       /\ states[m] # None => states[m][1].last_yes_price = observed[m]

\* The state of a market changes only in the step that runs the task of an
\* active subscription of the market joined to a snapshot of it; the step
\* measures the move from the last_yes_price it finds, and no step removes a
\* state.
C33_Step ==
    \A m \in Markets :
       /\ states[m] # None => states'[m] # None
       /\ states'[m] # states[m] =>
             /\ pc = "gather"
             /\ tasks # <<>>
             /\ Head(tasks).sub.market_id = m
             /\ Head(tasks).snapshot.market_id = m
             /\ is_active(Head(tasks).sub)
             /\ m \in cycle.active /\ m \in cycle.snapshots
             /\ last_eval' # None
             /\ last_eval'[1].market_id = m
             /\ last_eval'[1].hist_prev = StateBefore(m).last_yes_price
             /\ last_eval'[1].change # None =>
                   last_eval'[1].change[1].previous_yes_price = states[m][1].last_yes_price

\* C33: the state of a market is created when a matched pair of an active
\* subscription and a snapshot is first processed and is never removed or
\* reset; through cycles in which the market is unmatched or inactive, or
\* the fetch or the store read fails, last_yes_price stays, and the next
\* evaluation measures from it.
C33_StateRetained == []C33_Inv /\ [][C33_Step]_vars

\* C33 witness: the fetch of the second cycle failed, the cycle is over, and
\* market m1 still has the state the first cycle left.
C33_Witness ==
    /\ tick = 2
    /\ pc = "sleep"
    /\ cycle.fetch = "raised"
    /\ states["m1"] # None
    /\ states["m1"] = states_at_start["m1"]
    /\ states["m1"][1].last_yes_price = observed["m1"]

\* The offsets requested are 0, 500, 1000, ... below 10000, and the loop is
\* still paging only while every page so far was full.
C34_Inv ==
    parsing # <<>> =>
       /\ Len(parsing.offsets) <= 20
       /\ \A i \in 1..Len(parsing.offsets) :
             /\ parsing.offsets[i] = (i - 1) * 500
             /\ parsing.offsets[i] < 10000
       /\ (parsing.pc = "page" /\ parsing.offsets # <<>>) => parsing.last >= 500
       /\ parsing.pc = "page" => Len(parsing.offsets) < 20

\* A page shorter than 500 records is the last one requested.
C34_Step ==
    (parsing # <<>> /\ parsing' # parsing) =>
       /\ parsing.pc = "page"
       /\ Len(parsing'.offsets) = Len(parsing.offsets) + 1
       /\ (parsing'.pc = "parse" /\ Len(parsing'.offsets) < 20) => parsing'.last < 500
       /\ parsing'.last < 500 => parsing'.pc # "page"

\* C34: a bulk fetch requests the offsets 0, 500, 1000, ... in increasing
\* order, stops after the first page of fewer than 500 records, requests no
\* offset of 10000 or more, so at most 20 pages, and comes to an end even if
\* every page is full.
C34_Pagination ==
    /\ []C34_Inv
    /\ [][C34_Step]_vars
    /\ <>(parsing # <<>> /\ parsing.pc \in {"parse", "raised"})

\* C34 witness: twenty full pages were requested, the last at offset 9500,
\* and the pagination is over.
C34_Witness ==
    /\ parsing # <<>>
    /\ parsing.pc = "parse"
    /\ Len(parsing.offsets) = 20
    /\ parsing.offsets[20] = 9500
    /\ parsing.last >= 500
    /\ parsing.n_items >= 10000

\* The prices the packed format gives on its own, and the prices the tokens
\* array gives on its own.
PackedAlone(data) ==
    IF /\ data.outcomes.form # "absent" /\ data.outcomes.valid
       /\ data.outcomePrices.form # "absent" /\ data.outcomePrices.valid
       /\ data.outcomes.v.t = "list" /\ data.outcomePrices.v.t = "list"
       /\ Len(data.outcomes.v.items) = 2 /\ Len(data.outcomePrices.v.items) = 2
    THEN PackedScan(data.outcomes.v.items, data.outcomePrices.v.items, 1, NoPrices)
    ELSE NoPrices

TokensAlone(data) ==
    IF data.tokens.form # "absent"
    THEN TokenScan(data.tokens.v.items, 1, NoPrices)
    ELSE NoPrices

FromOneFormat(data, snapshot) ==
    LET packed == PackedAlone(data)
        tokens == TokensAlone(data)
    IN  IF packed.yes # None /\ packed.no # None
        THEN snapshot.yes_price = packed.yes[1] /\ snapshot.no_price = packed.no[1]
        ELSE /\ tokens.yes # None /\ tokens.no # None
             /\ snapshot.yes_price = tokens.yes[1]
             /\ snapshot.no_price = tokens.no[1]

\* C35: the two prices of a snapshot come from one format: both from the
\* packed pair when it yields both, otherwise both from the tokens array.
C35_OneFormat ==
    (ParsedFirst /\ parsing.outcome.kind = "snapshot") =>
       FromOneFormat(parsing.all_items[1], parsing.outcome.snapshot[1])

\* The entries of the cycle's outcomes in which a change fired for market m.
Fired(m) ==
    {i \in 1..Len(cycle.outcomes) :
        /\ cycle.outcomes[i].market_id = m
        /\ cycle.outcomes[i].outcome \in {"published", "failed"}}

\* In the cycle in flight a change has fired at most once per market, and at
\* most one record per key has been handed to the producer.
C36_Inv ==
    \A m \in Markets :
       /\ Cardinality(Fired(m)) <= 1
       /\ Cardinality({i \in 1..Len(cycle.published) :
                          cycle.published[i].key = m}) <= 1

\* A task that ends after another task of its market has ended in the same
\* gather read the snapshot price as last_yes_price and did not fire.
C36_Step ==
    \A i \in 1..MaxSubs :
       (Ends(i) /\ \E j \in 1..Len(tasks) :
                      /\ j # i
                      /\ tasks[j].pc = "done"
                      /\ tasks[j].sub.market_id = tasks[i].sub.market_id) =>
          /\ tasks'[i].previous_price = Some(tasks'[i].snapshot.yes_price)
          /\ tasks'[i].change = None
          /\ tasks'[i].outcome = "suppressed"
          /\ outq' = outq

\* C36: in one poll cycle at most one event is published per market_id, even
\* with several subscriptions of one market_id and different thresholds: once
\* the first is processed, last_yes_price is the snapshot price and the
\* others see a zero move.
C36_OnePerMarket == []C36_Inv /\ [][C36_Step]_vars

\* C36 witness: two subscriptions of m1 with different thresholds were
\* processed in one gather; the first published, the second was suppressed.
C36_Witness ==
    /\ pc = "gather"
    /\ Len(tasks) = 2
    /\ tasks[1].sub.market_id = "m1" /\ tasks[2].sub.market_id = "m1"
    /\ tasks[1].sub.conviction_threshold # tasks[2].sub.conviction_threshold
    /\ tasks[1].pc = "done" /\ tasks[2].pc = "done"
    /\ Len(cycle.published) = 1
    /\ cycle.published[1].key = "m1"
    /\ \E i, j \in 1..2 :
          /\ cycle.outcomes[i].outcome = "published"
          /\ cycle.outcomes[j].outcome = "suppressed"

\* A task whose event was lost ends with the market's state advanced to its
\* observation and with nothing handed to the producer; and while the price
\* stays where a lost event left it, a task of that market does not fire.
C37_Step ==
    \A i \in 1..MaxSubs :
       Ends(i) =>
          LET t == tasks'[i]
              m == t.sub.market_id
              price == t.snapshot.yes_price
          IN  /\ t.outcome = "failed" =>
                    /\ t.change # None
                    /\ states'[m] # None
                    /\ states'[m][1].last_yes_price = Some(price)
                    /\ states'[m][1].last_event_yes_price = Some(price)
                    /\ states'[m][1].last_event_at = Some(Now("detect"))
                    /\ outq' = outq
                    /\ cycle'.published = cycle.published
              /\ (/\ <<m, price>> \in cycle.dropped
                  /\ states[m] # None
                  /\ states[m][1].last_event_yes_price = Some(price)
                  /\ states[m][1].last_yes_price = Some(price)) =>
                    /\ t.change = None
                    /\ t.outcome = "suppressed"
                    /\ states'[m] = states[m]

\* The state of a market one of whose events was lost holds a last event.
C37_Inv ==
    \A d \in cycle.dropped :
       /\ states[d[1]] # None
       /\ states[d[1]][1].last_event_yes_price # None
       /\ states[d[1]][1].last_event_at # None

\* C37: when a change fires and building or publishing the event raises,
\* the state is already advanced (last_yes_price, last_event_yes_price and
\* last_event_at hold the new observation), and the change is not detected
\* again while the price does not move: the event is dropped, not retried.
C37_DroppedNotRetried == []C37_Inv /\ [][C37_Step]_vars

\* C37 witness: the event of m1 was lost in the first cycle, the second
\* cycle saw m1 at the same price and suppressed it, and the producer was
\* handed nothing.
C37_Witness ==
    /\ tick = 2
    /\ pc = "gather"
    /\ outq = 0
    /\ \E i \in 1..Len(tasks) :
          /\ tasks[i].pc = "done"
          /\ tasks[i].outcome = "suppressed"
          /\ tasks[i].sub.market_id = "m1"
          /\ <<"m1", tasks[i].snapshot.yes_price>> \in cycle.dropped
          /\ states["m1"][1].last_event_yes_price = Some(tasks[i].snapshot.yes_price)
    /\ \A i \in 1..Len(cycle.outcomes) : cycle.outcomes[i].outcome = "suppressed"

\* The calls of the finally clause that release a resource.
Closes == {i \in 1..Len(shutdown.calls) : shutdown.calls[i] \in {"close_store", "close_source"}}

\* After a flush that raised, run() is over and nothing was closed; a close
\* was made only after a flush that returned.
C38_Inv ==
    /\ shutdown.raised => (pc = "done" /\ Closes = {} /\ shutdown.calls = <<"flush">>)
    /\ Closes # {} => (~shutdown.raised /\ shutdown.calls[1] = "flush")
    /\ pc \in {"close_store", "close_source"} => ~shutdown.raised

\* The flush either raises, which ends run(), or returns, which leads to the
\* close of the store.
C38_Step ==
    pc = "flush" /\ pc' # "flush" =>
       IF shutdown'.raised THEN pc' = "done" /\ shutdown'.calls = <<"flush">>
       ELSE pc' = "close_store"

\* C38: if the publisher's flush raises during shutdown, the exception leaves
\* run() and neither the subscription store nor the data source is closed;
\* both closes happen only when flush returns normally.
C38_FlushRaisesSkipsCloses == []C38_Inv /\ [][C38_Step]_vars

\* C38 witness: the flush raised after at least one poll cycle; run() is over
\* with flush as its only shutdown call.
C38_Witness ==
    /\ pc = "done"
    /\ shutdown.raised
    /\ shutdown.calls = <<"flush">>
    /\ tick >= 1

\* The keys of the latest-per-market documents of a collection.
MarketKeys(coll) == {k \in DOMAIN coll : k[1] = "market::"}

\* An iteration that wrote the latest-per-market document of its event left
\* that event under market::{m}, whatever the document held before; every
\* other latest-per-market document stays as it was, and a step that
\* consumes nothing changes none.
C39_Step ==
    IF \E p \in Partitions : position'[p] = position[p] + 1
    THEN LET p == CHOOSE q \in Partitions : position'[q] = position[q] + 1
             event == EventOf(SubscribedLog[p][position[p] + 1])
             wrote == event # None /\ last_poll'[1].writes >= 1
         IN  /\ wrote => /\ market_key(event[1]) \in DOMAIN archive'
                         /\ archive'[market_key(event[1])] =
                               WithType("market_latest", event[1])
             /\ \A k \in MarketKeys(archive) :
                   (~wrote \/ k # market_key(event[1])) =>
                      (k \in DOMAIN archive' /\ archive'[k] = archive[k])
    ELSE archive' = archive

\* C39: the latest-per-market document is last-written, not newest: an older
\* event of market m delivered again after a newer one was projected
\* overwrites market::{m}, which stays so until a further event of m is
\* consumed.
C39_LastWritten == [][C39_Step]_vars

\* The older and the newer event of one market on one partition, as the
\* consumer reads them.
Redelivered(p) ==
    /\ Len(SubscribedLog[p]) = 2
    /\ position[p] = 1
    /\ LET older == EventOf(SubscribedLog[p][1])
           newer == EventOf(SubscribedLog[p][2])
       IN  /\ older # None /\ newer # None
           /\ "timestamp" \in DOMAIN older[1] /\ "timestamp" \in DOMAIN newer[1]
           /\ older[1].timestamp[2][2] < newer[1].timestamp[2][2]
           /\ market_key(older[1]) = market_key(newer[1])
           /\ event_key(newer[1]) \in DOMAIN archive
           /\ archive[event_key(newer[1])] = WithType("conviction_event", newer[1])
           /\ market_key(older[1]) \in DOMAIN archive
           /\ archive[market_key(older[1])] = WithType("market_latest", older[1])

\* C39 witness: both events of m1 were projected, the consumer went back to
\* its committed offset and projected the older one again; market::m1 holds
\* the older event while the history holds the newer one.
C39_Witness == \E p \in Partitions : Redelivered(p)

\* The collection holds a document the query matches and validation rejects.
InvalidActive ==
    \E i \in 1..Len(collection) :
       collection[i].ref_count > 0 /\ ~Validates(collection[i])

\* A store read made while such a document is in the collection raises: the
\* cycle goes to its sleep with no active subscription, no fetch and no
\* task; a read made without one returns.
C40_Step ==
    (pc = "load" /\ pc' # "load") =>
       IF InvalidActive
       THEN /\ cycle'.store = "raised"
            /\ pc' = "sleep"
            /\ active_subs' = <<>>
            /\ tasks' = <<>>
            /\ cycle'.fetch_calls = 0
            /\ <<states, eval_count, outq>>' = <<states, eval_count, outq>>
       ELSE cycle'.store = "ok"

\* In a cycle whose store read raised nothing is evaluated or published.
C40_Inv ==
    cycle.store = "raised" =>
       /\ pc = "sleep"
       /\ tasks = <<>>
       /\ cycle.outcomes = <<>>
       /\ cycle.published = <<>>
       /\ cycle.matched = 0

\* C40: one document with ref_count > 0 that fails validation makes the
\* whole read of the active subscriptions raise, so in that tick, and in
\* every tick while the document remains, no subscription is evaluated and
\* no event is published, the valid subscriptions included.
C40_InvalidDocument == []C40_Inv /\ [][C40_Step]_vars

\* C40 witness: the second cycle has ended on a read that raised, the
\* collection holds the valid subscription of m1 next to an invalid
\* document, and m1, priced in every fetch, was never evaluated.
C40_Witness ==
    /\ tick = 2
    /\ pc = "sleep"
    /\ cycle.store = "raised"
    /\ InvalidActive
    /\ \E i \in 1..Len(collection) : collection[i] = ValidDocument
    /\ \A m \in Markets : eval_count[m] = 0
    /\ outq = 0

====
